---- MODULE Spec2Model ----
(***************************************************************************)
(* RDCleanPath proxy of the NetBird WASM client: one proxy session         *)
(* (proxyConnection), the goroutines the Go side starts for it, the remote *)
(* connections it dials and the JavaScript bridge object                   *)
(* (RDCleanPathProxyWebSocket) it talks to.                                *)
(*                                                                         *)
(* Strings that the code takes apart or builds (destinations) are          *)
(* sequences of tokens: "host:3389" is <<"host", ":", "3389">>.            *)
(* A nil connection handle is 0; dialed connections are numbered 1, 2, ... *)
(***************************************************************************)
EXTENDS Integers, Sequences, FiniteSets, TLC

\* ---------------------------------------------------------------- bounds
MaxMsgs == 2        \* messages the consumer sends under Spec
MaxRelayMsgs == 3   \* messages the consumer sends under SpecRelay
MaxDials == 2       \* successful dials
MaxReads == 1       \* data chunks the remote ends deliver
MaxCalls == 2       \* calls of createProxy, and send() and close() calls on a closed bridge
MaxBridgeMsgs == 1  \* messages the consumer sends under SpecBridge
MaxClientBytes == 2 \* bytes the client of the TCP proxy writes
MaxServerBytes == 2 \* bytes the server of the TCP proxy writes
MaxTransports == 2  \* bridges attached to the RDCleanPath proxy

\* ------------------------------------------------------------- constants
RDCleanPathVersion == 3390
RDPMarker == 3
X224ReadLimit == 1024

Tasks == 1..MaxRelayMsgs
ConnIds == 1..MaxDials

\* ---------------------------------------------------------------- strings
TLSPortSuffix == <<":", "3389">>
DefaultDestination == <<"win2k19-c2.nb.internal", ":", "3389">>

HasSuffix(s, suffix) ==
    /\ Len(s) >= Len(suffix)
    /\ SubSeq(s, Len(s) - Len(suffix) + 1, Len(s)) = suffix

\* fmt.Sprintf("%s:%s", hostname, port)
JoinHostPort(hostname, port) == <<hostname, ":", port>>

\* fmt.Sprintf("proxy_%d", n)
ProxyIDOf(n) == <<"proxy_", n>>

\* ------------------------------------------------------------------- PDU
\* The zero value of the struct. A field of slice type ([]byte, [][]byte)
\* holds nil or a slice; emptySlices names the fields that hold a slice of
\* length 0 rather than nil.
RDCleanPathPDU ==
    [Version |-> 0, Error |-> "", Destination |-> <<>>, ProxyAuth |-> <<>>,
     ServerAuth |-> <<>>, PreconnectionBlob |-> <<>>,
     X224ConnectionPDU |-> <<>>, ServerCertChain |-> <<>>,
     ServerAddr |-> <<>>, emptySlices |-> {}]

\* tag of every field of the struct
FieldTags ==
    [Version |-> 0, Error |-> 1, Destination |-> 2, ProxyAuth |-> 3,
     ServerAuth |-> 4, PreconnectionBlob |-> 5, X224ConnectionPDU |-> 6,
     ServerCertChain |-> 7, ServerAddr |-> 9]

FieldNames == DOMAIN FieldTags

\* the fields of type []byte or [][]byte, and those of type string
SliceFields == {"Error", "X224ConnectionPDU", "ServerCertChain"}
StringFields == {"Destination", "ProxyAuth", "ServerAuth", "PreconnectionBlob", "ServerAddr"}

\* the field has no content: "" or a slice of length 0 or nil
IsEmptyField(pdu, f) == IF f = "Error" THEN pdu[f] = "" ELSE pdu[f] = <<>>

\* reflect.DeepEqual(v, zero value): an optional field without a default is
\* left out when it holds the zero value of its type, which for a slice is
\* nil and not a slice of length 0
IsZeroField(pdu, f) ==
    IF f = "Version" THEN FALSE
    ELSE IsEmptyField(pdu, f) /\ f \notin pdu.emptySlices

\* asn1.Marshal: the required Version and every optional field that is not
\* the zero value, keyed by field name; the wire form of a field is its tag
\* and its content.
Marshal(pdu) ==
    [f \in {g \in FieldNames : ~IsZeroField(pdu, g)} |->
        [tag |-> FieldTags[f], val |-> pdu[f]]]

\* asn1.Unmarshal of the encoding `wire` into a zero struct: a field that is
\* absent keeps the zero value, a slice field that is present is allocated
\* with the length of its content
UnmarshalDER(wire) ==
    [f \in FieldNames \cup {"emptySlices"} |->
        IF f = "emptySlices"
        THEN {g \in SliceFields \cap DOMAIN wire :
                IF g = "Error" THEN wire[g].val = "" ELSE wire[g].val = <<>>}
        ELSE IF f \in DOMAIN wire THEN wire[f].val
        ELSE RDCleanPathPDU[f]]

\* ------------------------------------------------- encoding/asn1 on bytes
\* asn1.Unmarshal(bytes, &pdu) followed on the bytes of a message. Offsets
\* count from 0 as in the decoder; the byte at offset k is bytes[k + 1].
\* A header is [err, class, isCompound, tag, length, offset], offset being
\* the offset of the first byte after the header.
HeaderError == [err |-> TRUE, class |-> 0, isCompound |-> FALSE, tag |-> 0,
                length |-> 0, offset |-> 0]

\* one round of the loop of parseBase128Int: round number `shifted`, state
\* s = [done, err, ret, offset]
Base128Round(bytes, shifted, s) ==
    IF s.done THEN s
    ELSE IF s.offset >= Len(bytes) \/ shifted = 5
            \/ (shifted = 0 /\ bytes[s.offset + 1] = 128)
    THEN [done |-> TRUE, err |-> TRUE, ret |-> 0, offset |-> s.offset]
    ELSE [done |-> bytes[s.offset + 1] < 128, err |-> FALSE,
          ret |-> s.ret * 128 + (bytes[s.offset + 1] % 128),
          offset |-> s.offset + 1]

\* parseBase128Int: a tag number of 31 or more, seven bits to a byte, at
\* most five bytes, the first of them not 0x80
ParseBase128Int(bytes, initOffset) ==
    LET st[k \in 0..6] ==
            IF k = 0 THEN [done |-> FALSE, err |-> FALSE, ret |-> 0, offset |-> initOffset]
            ELSE Base128Round(bytes, k - 1, st[k - 1])
    IN  st[6]

\* one round of the loop over the bytes of a long-form length
LengthRound(bytes, s) ==
    IF s.err THEN s
    ELSE IF s.offset >= Len(bytes) \/ s.length >= 8388608
            \/ s.length * 256 + bytes[s.offset + 1] = 0
    THEN [err |-> TRUE, length |-> 0, offset |-> s.offset]
    ELSE [err |-> FALSE, length |-> s.length * 256 + bytes[s.offset + 1],
          offset |-> s.offset + 1]

\* a long-form length must not be a value the short form holds
MinimalLength(s) == IF s.err \/ s.length >= 128 THEN s ELSE [s EXCEPT !.err = TRUE]

\* the long form of a length: numBytes bytes, most significant first, no
\* leading zero byte, below 2^31
ParseLongLength(bytes, initOffset, numBytes) ==
    LET st[k \in 0..numBytes] ==
            IF k = 0 THEN [err |-> FALSE, length |-> 0, offset |-> initOffset]
            ELSE LengthRound(bytes, st[k - 1])
    IN  MinimalLength(st[numBytes])

\* the length at `offset`: short form, indefinite (refused) or long form
ParseLength(bytes, offset) ==
    IF offset >= Len(bytes) \/ bytes[offset + 1] = 128
    THEN [err |-> TRUE, length |-> 0, offset |-> offset]
    ELSE IF bytes[offset + 1] < 128
    THEN [err |-> FALSE, length |-> bytes[offset + 1], offset |-> offset + 1]
    ELSE ParseLongLength(bytes, offset + 1, bytes[offset + 1] - 128)

\* the header made of identifier byte b, tag number and length
Header(b, tag, len) ==
    IF len.err THEN HeaderError
    ELSE [err |-> FALSE, class |-> b \div 64, isCompound |-> (b \div 32) % 2 = 1,
          tag |-> tag, length |-> len.length, offset |-> len.offset]

\* the part of parseTagAndLength after the tag number
TagThenLength(bytes, b, high) ==
    IF high.err \/ (b % 32 = 31 /\ high.ret < 31) THEN HeaderError
    ELSE Header(b, high.ret, ParseLength(bytes, high.offset))

\* parseTagAndLength: the identifier byte (class, constructed bit, tag
\* number) and the length; the length is not compared with the buffer here
ParseTagAndLength(bytes, initOffset) ==
    IF initOffset >= Len(bytes) THEN HeaderError
    ELSE TagThenLength(bytes, bytes[initOffset + 1],
            IF bytes[initOffset + 1] % 32 = 31
            THEN ParseBase128Int(bytes, initOffset + 1)
            ELSE [err |-> FALSE, ret |-> bytes[initOffset + 1] % 32,
                  offset |-> initOffset + 1])

\* invalidLength: the content does not fit in the slice
InvalidLength(offset, length, sliceLength) == offset + length > sliceLength

\* the bytes read as a number, most significant byte first
BigEndian(bytes) ==
    LET v[k \in 0..Len(bytes)] == IF k = 0 THEN 0 ELSE v[k - 1] * 256 + bytes[k]
    IN  v[Len(bytes)]

Power256(n) ==
    LET p[k \in 0..n] == IF k = 0 THEN 1 ELSE 256 * p[k - 1]
    IN  p[n]

\* checkInteger and parseInt64: not empty, minimally encoded, at most eight
\* bytes, two's complement
ParseInt64(bytes) ==
    IF bytes = <<>> \/ Len(bytes) > 8 THEN [err |-> TRUE, val |-> 0]
    ELSE IF Len(bytes) > 1 /\ (\/ bytes[1] = 0 /\ bytes[2] < 128
                               \/ bytes[1] = 255 /\ bytes[2] >= 128)
    THEN [err |-> TRUE, val |-> 0]
    ELSE [err |-> FALSE,
          val |-> IF bytes[1] >= 128 THEN BigEndian(bytes) - Power256(Len(bytes))
                  ELSE BigEndian(bytes)]

\* one element of parseSequenceOf for [][]byte: a primitive OCTET STRING
\* with header t whose content fits
SequenceElement(bytes, s, t) ==
    IF t.err \/ t.class # 0 \/ t.isCompound \/ t.tag # 4
       \/ InvalidLength(t.offset, t.length, Len(bytes))
    THEN [err |-> TRUE, offset |-> 0, val |-> <<>>]
    ELSE [err |-> FALSE, offset |-> t.offset + t.length,
          val |-> Append(s.val, SubSeq(bytes, t.offset + 1, t.offset + t.length))]

SequenceRound(bytes, s) ==
    IF s.err \/ s.offset >= Len(bytes) THEN s
    ELSE SequenceElement(bytes, s, ParseTagAndLength(bytes, s.offset))

\* parseSequenceOf: the elements one after the other up to the end
ParseSequenceOf(bytes) ==
    LET st[k \in 0..Len(bytes)] ==
            IF k = 0 THEN [err |-> FALSE, offset |-> 0, val |-> <<>>]
            ELSE SequenceRound(bytes, st[k - 1])
    IN  st[Len(bytes)]

\* the universal tags a field of the struct is read from: INTEGER for int64,
\* OCTET STRING for []byte, SEQUENCE for [][]byte, and for a string the
\* string type found on the wire
StringTags == {12, 18, 19, 20, 22, 27, 30}
UniversalTags(f) ==
    IF f = "Version" THEN {2}
    ELSE IF f = "ServerCertChain" THEN {16}
    ELSE IF f \in SliceFields THEN {4}
    ELSE StringTags

\* what parseField returns: [err, offset, set, val]
FieldError == [err |-> TRUE, offset |-> 0, set |-> FALSE, val |-> <<>>]
\* setDefaultValue: an optional field is left alone and parsing goes on at
\* the same offset, a field that is not optional fails
FieldDefault(initOffset, f) ==
    [err |-> f = "Version", offset |-> initOffset, set |-> FALSE, val |-> <<>>]
FieldValue(r, offset) ==
    IF r.err THEN FieldError
    ELSE [err |-> FALSE, offset |-> offset, set |-> TRUE, val |-> r.val]

\* the content of a field by its type; a string must be valid in its
\* string type, which it is here when every byte is below 128
ParseContent(f, innerBytes) ==
    IF f = "Version" THEN ParseInt64(innerBytes)
    ELSE IF f = "ServerCertChain" THEN ParseSequenceOf(innerBytes)
    ELSE [err |-> f \in StringFields /\ \E k \in DOMAIN innerBytes : innerBytes[k] >= 128,
          val |-> innerBytes]

\* parseField after the explicit tag has been unwrapped: t is the header of
\* the element inside it
ParseElement(bytes, initOffset, f, t) ==
    IF t.err THEN FieldError
    ELSE IF \/ t.class # 0
            \/ t.tag \notin UniversalTags(f)
            \/ t.isCompound # (f = "ServerCertChain")
    THEN FieldDefault(initOffset, f)
    ELSE IF InvalidLength(t.offset, t.length, Len(bytes)) THEN FieldError
    ELSE FieldValue(ParseContent(f, SubSeq(bytes, t.offset + 1, t.offset + t.length)),
                    t.offset + t.length)

\* parseField at the explicit tag with header w. The length of the explicit
\* tag is read and, unless 0, not used: only the length of the element
\* inside it is compared with the buffer.
ParseExplicit(bytes, initOffset, f, w) ==
    IF w.err \/ w.offset = Len(bytes) THEN FieldError
    ELSE IF ~(w.class = 2 /\ w.tag = FieldTags[f] /\ (w.length = 0 \/ w.isCompound))
    THEN FieldDefault(initOffset, f)
    ELSE IF w.length = 0 THEN FieldError
    ELSE ParseElement(bytes, initOffset, f, ParseTagAndLength(bytes, w.offset))

\* parseField for one field of the struct, tagged explicit
ParseField(bytes, initOffset, f) ==
    IF initOffset = Len(bytes) THEN FieldDefault(initOffset, f)
    ELSE ParseExplicit(bytes, initOffset, f, ParseTagAndLength(bytes, initOffset))

\* the fields in the order of the struct
FieldOrder ==
    <<"Version", "Error", "Destination", "ProxyAuth", "ServerAuth",
      "PreconnectionBlob", "X224ConnectionPDU", "ServerCertChain", "ServerAddr">>

\* field f stored in the struct: r is what parseField returned
StoreField(s, f, r) ==
    IF r.err THEN [err |-> TRUE, offset |-> 0, pdu |-> RDCleanPathPDU]
    ELSE IF ~r.set THEN [s EXCEPT !.offset = r.offset]
    ELSE [err |-> FALSE, offset |-> r.offset,
          pdu |-> [s.pdu EXCEPT ![f] = r.val,
                                !.emptySlices = IF f \in SliceFields /\ r.val = <<>>
                                                THEN @ \cup {f} ELSE @]]

StructRound(bytes, s, f) ==
    IF s.err THEN s ELSE StoreField(s, f, ParseField(bytes, s.offset, f))

\* the loop over the fields of the struct; bytes left over after the last
\* field are accepted
ParseStruct(bytes) ==
    LET st[k \in 0..Len(FieldOrder)] ==
            IF k = 0 THEN [err |-> FALSE, offset |-> 0, pdu |-> RDCleanPathPDU]
            ELSE StructRound(bytes, st[k - 1], FieldOrder[k])
    IN  st[Len(FieldOrder)]

\* the top level of asn1.Unmarshal: t is the header of the first element,
\* which must be a SEQUENCE whose content fits in the buffer
UnmarshalSequence(bytes, t) ==
    IF \/ t.err
       \/ ~(t.class = 0 /\ t.tag = 16 /\ t.isCompound)
       \/ InvalidLength(t.offset, t.length, Len(bytes))
    THEN [err |-> TRUE, offset |-> 0, pdu |-> RDCleanPathPDU]
    ELSE ParseStruct(SubSeq(bytes, t.offset + 1, t.offset + t.length))

\* asn1.Unmarshal(bytes, &pdu); bytes after the SEQUENCE are returned as
\* rest and ignored by the caller
UnmarshalBytes(bytes) == UnmarshalSequence(bytes, ParseTagAndLength(bytes, 0))

\* -------------------------------------------------------- inbound messages
\* What the bridge hands to onGoMessage: either the DER encoding of a PDU
\* (first byte 0x30) or other bytes.
DerMsg(pdu) == [der |-> TRUE, pdu |-> pdu, raw |-> <<>>]
RawMsg(bytes) == [der |-> FALSE, pdu |-> RDCleanPathPDU, raw |-> bytes]
\* a message given by its bytes: it carries what asn1.Unmarshal makes of them
DecodedMsg(bytes, r) == [der |-> ~r.err, pdu |-> r.pdu, raw |-> bytes]
BytesMsg(bytes) == DecodedMsg(bytes, UnmarshalBytes(bytes))

X224Request == <<3, 0, 0, 19>>
ReqDefault == [RDCleanPathPDU EXCEPT !.Version = RDCleanPathVersion]
ReqX224 == [ReqDefault EXCEPT !.X224ConnectionPDU = X224Request]
ReqPlain == [ReqDefault EXCEPT !.Destination = <<"alt", ":", "5900">>]
ReqBadVersion == [RDCleanPathPDU EXCEPT !.Version = RDCleanPathVersion + 1]

RawRDP == <<RDPMarker, 0, 0, 8>>
RawOther == <<22, 3, 1>>

\* what the consumer sends first, and what it sends afterwards
FirstMessages ==
    {DerMsg(ReqDefault), DerMsg(ReqX224), DerMsg(ReqPlain), DerMsg(ReqBadVersion),
     RawMsg(RawRDP), RawMsg(RawOther)}
LaterMessages == {DerMsg(ReqDefault), RawMsg(RawRDP)}
Messages == FirstMessages \cup LaterMessages

\* asn1.Unmarshal(bytes, &pdu) of a message: the DER encoding of a PDU
\* decodes to that PDU, other bytes do not decode
Unmarshal(m) ==
    IF m.der THEN [err |-> FALSE, pdu |-> m.pdu]
    ELSE [err |-> TRUE, pdu |-> RDCleanPathPDU]

\* the bytes of a message; a DER message starts with the SEQUENCE tag
FirstByte(m) == IF m.der THEN 48 ELSE IF Len(m.raw) > 0 THEN m.raw[1] ELSE -1

\* ----------------------------------------------------------- certificates
\* x509.Certificate values a remote can present: Raw is the DER encoding.
\* CertLeaf is issued by CertCA, which the client's root pool holds;
\* CertSelfSigned is issued by nobody the client knows.
CertLeaf == [Raw |-> <<48, 1>>, Subject |-> "leaf", Issuer |-> "ca"]
CertCA == [Raw |-> <<48, 2>>, Subject |-> "ca", Issuer |-> "ca"]
CertSelfSigned == [Raw |-> <<48, 3>>, Subject |-> "leaf", Issuer |-> "leaf"]
PeerChains == {<<>>, <<CertSelfSigned>>, <<CertLeaf, CertCA>>}

\* the subjects of the certificates in the root pool
RootSubjects == {"ca"}

\* what the TLS client's verification makes of a presented chain: every
\* certificate is issued by the next one and the last by a root
ChainVerifies(peerCertificates) ==
    /\ \A j \in 1..(Len(peerCertificates) - 1) :
          peerCertificates[j].Issuer = peerCertificates[j + 1].Subject
    /\ peerCertificates # <<>> =>
          peerCertificates[Len(peerCertificates)].Issuer \in RootSubjects

\* tls.Config{InsecureSkipVerify: true}: the client accepts any chain
InsecureSkipVerifyOff == FALSE
InsecureSkipVerify == TRUE

\* ------------------------------------------------------------------ state
VARIABLES
    destinations,       \* RDCleanPathProxy.destinations: proxy id -> destination
    activeConnections,  \* keys of RDCleanPathProxy.activeConnections
    conn,               \* the proxyConnection of the session
    inbox,              \* messages handed to onGoMessage, in call order
    pc,                 \* per message: position of the goroutine chain it started
    loc,                \* per message: locals of that goroutine chain
    fwd,                \* per message: forwardTCPToWS / forwardTLSToWS it started
    wsfwd,              \* per message: forwardWSToTCP it started
    remote,             \* per dialed connection: what the remote end observed
    dials,              \* number of successful dials so far
    reads,              \* number of data chunks read from remote connections
    wsSent,             \* arguments of the receiveFromGo calls, in call order
    rx,                 \* per receiveFromGo call: where the async call stands
    events,             \* indexes (into wsSent) of the message events dispatched
    js,                 \* fields of the RDCleanPathProxyWebSocket object
    panicked,           \* a goroutine hit a nil handle: the Go program is gone
    consumer,           \* what the caller of the JavaScript entry points got back
    codec,              \* a PDU value on its way through Marshal and Unmarshal
    tcp,                \* a call of the forwarder's TCP proxy and its two peers
    nbws,               \* fields of the NetBirdWebSocket object
    registry,           \* activeConnections as a map, and the transports attached
    vnc,                \* one handleVNCConnection call and its done channel
    bridge              \* one tcpConnection of the TCPConnectionBridge

vars ==
    <<destinations, activeConnections, conn, inbox, pc, loc, fwd, wsfwd,
      remote, dials, reads, wsSent, rx, events, js, panicked, consumer, codec,
      tcp, nbws, registry,
      vnc, bridge>>

regVars == <<destinations, activeConnections>>
taskVars == <<pc, loc, fwd, wsfwd>>
remoteVars == <<remote, dials, reads>>
jsVars == <<wsSent, rx, events, js>>

NoConn ==
    [attached |-> FALSE, id |-> <<>>, destination |-> <<>>,
     rdpConn |-> 0, tlsConn |-> 0, cancelled |-> FALSE]

NoLoc ==
    [c |-> 0, mode |-> "", x224Response |-> <<>>, outcome |-> "",
     cleaned |-> FALSE]
NoFwd == [pc |-> "none", kind |-> "", c |-> 0]

NoRemote ==
    [dest |-> <<>>, rdpCloses |-> 0, tlsCloses |-> 0, rawWritten |-> <<>>,
     tlsWritten |-> <<>>, hs |-> "none", chain |-> <<>>]

\* nothing called and nothing returned to the caller yet: the proxy ids
\* createProxy resolved and the destination each call asked for, the send()
\* calls made, the send() calls that threw
\* 'WebSocket is not open', the close() calls that returned at once because
\* the bridge was closing or closed
NoConsumer ==
    [proxyIDs |-> <<>>, requested |-> <<>>, sendCalls |-> 0,
     notOpenErrors |-> 0, closeNoOps |-> 0]

\* no value is on its way through the codec
NoCodec ==
    [pc |-> "idle", m |-> << >>, pdu |-> RDCleanPathPDU, wire |-> << >>,
     out |-> RDCleanPathPDU]

\* the forwarder's TCP proxy before it is called: two connected peers
Sides == {"client", "server"}
Directions == {"c2s", "s2c"}
EndOfStream == 0
NoTCP ==
    [impl |-> "none", isTCP |-> FALSE,
     peer |-> [side \in Sides |-> [wrote |-> 0, state |-> "open"]],
     stream |-> [side \in Sides |-> <<>>],
     got |-> [side \in Sides |-> <<>>],
     handle |-> [side \in Sides |-> {}],
     copy |-> [dir \in Directions |-> [pc |-> "none", hold |-> 0, err |-> FALSE]],
     cleanup |-> "none", cancelled |-> FALSE, returned |-> FALSE]

\* the bridge objects that attach to the proxy
Transports == 1..MaxTransports

\* no transport is attached and activeConnections is empty; a session is the
\* proxyConnection made for a transport, with the position of the one
\* negotiation its first message starts
NoRegistry ==
    [active |-> << >>,
     session |-> [s \in Transports |->
                    [attached |-> FALSE, id |-> <<>>, rdpConn |-> FALSE,
                     cancelled |-> FALSE, task |-> "none"]]]

\* no VNCWebSocketProxy has been constructed and handleVNCConnection has not
\* been called
NoVNC ==
    [pc |-> "none", readyState |-> 0, openTimer |-> FALSE, closeTimer |-> FALSE,
     handlers |-> FALSE, doneCloses |-> 0, reader |-> "none",
     connClosed |-> FALSE, written |-> 0, events |-> 0, panicked |-> FALSE]

\* createNetBirdTCPConnection has not dialed: no tcpConnection, no readLoop,
\* no handleSend or handleClose goroutine
NoBridge ==
    [created |-> FALSE, cancelled |-> FALSE, closeCalls |-> 0, oncloseCalls |-> 0,
     readLoop |-> "none", handleClose |-> "none", handled |-> {},
     written |-> <<>>, reads |-> 0]

\* no NetBirdWebSocket has been constructed
NoNetBirdWebSocket ==
    [constructed |-> FALSE, readyState |-> 0, tcpConnection |-> "null",
     connect |-> "none", closeTimers |-> 0, messageQueue |-> <<>>,
     sent |-> <<>>, events |-> <<>>, sendCalls |-> 0, notOpenErrors |-> 0]

Init ==
    /\ destinations = << >>
    /\ activeConnections = {}
    /\ conn = NoConn
    /\ inbox = <<>>
    /\ pc = [i \in Tasks |-> "none"]
    /\ loc = [i \in Tasks |-> NoLoc]
    /\ fwd = [i \in Tasks |-> NoFwd]
    /\ wsfwd = [i \in Tasks |-> "none"]
    /\ remote = [c \in ConnIds |-> NoRemote]
    /\ dials = 0
    /\ reads = 0
    /\ wsSent = <<>>
    /\ rx = <<>>
    /\ events = <<>>
    /\ js \in {[readyState |-> 0, certificateHandler |-> h,
                certificateValidated |-> FALSE, closeTimer |-> FALSE,
                closeEvents |-> 0, goCloseCalls |-> 0,
                messageQueue |-> <<>>] : h \in BOOLEAN}
    /\ panicked = FALSE
    /\ consumer = NoConsumer
    /\ codec = NoCodec
    /\ tcp = NoTCP
    /\ nbws = NoNetBirdWebSocket
    /\ registry = NoRegistry
    /\ vnc = NoVNC
    /\ bridge = NoBridge

\* ------------------------------------------------------- remote connection
\* Close has reached the dialed socket c: directly (rdpConn.Close) or through
\* the TLS wrapper (tls.Conn.Close closes the connection it wraps).
Closes(c) == remote[c].rdpCloses + remote[c].tlsCloses
IsClosed(c) == Closes(c) > 0

\* ------------------------------------------------ RDCleanPathProxyWebSocket
\* parseRDCleanPathResponse: non-null only for a PDU with a non-empty chain
HasCertChain(item) ==
    /\ item.kind = "pdu"
    /\ "ServerCertChain" \in DOMAIN item.wire
    /\ Len(item.wire["ServerCertChain"].val) > 0

\* sendToWebSocket + receiveFromGo up to the trust decision. Without a
\* certificate handler, or once a certificate was accepted, the message event
\* is dispatched in the call. Otherwise the call suspends at
\* `await parseRDCleanPathResponse`; these continuations run in call order
\* before any later task, so a chunk without a certificate chain is dispatched
\* in call order too, and a PDU with a chain goes on to wait for
\* handleRDCleanPathResponse.
SendToWebSocket(item) ==
    /\ wsSent' = Append(wsSent, item)
    /\ IF js.certificateHandler /\ ~js.certificateValidated /\ HasCertChain(item)
       THEN /\ rx' = Append(rx, "trust")
            /\ events' = events
       ELSE /\ rx' = Append(rx, "delivered")
            /\ events' = Append(events, Len(wsSent) + 1)
    /\ js' = js

\* an error PDU that also names the server
ErrorPDUWithServerAddr(errorMsg) ==
    [RDCleanPathPDU EXCEPT !.Version = RDCleanPathVersion, !.Error = errorMsg,
                           !.ServerAddr = conn.destination]

\* the PDU sendRDCleanPathError builds
ErrorPDU(errorMsg) ==
    [RDCleanPathPDU EXCEPT !.Version = RDCleanPathVersion, !.Error = errorMsg]

PduItem(i, pdu) == [kind |-> "pdu", wire |-> Marshal(pdu), n |-> 0, by |-> i]
DataItem(i, n) == [kind |-> "data", wire |-> << >>, n |-> n, by |-> i]

\* sendRDCleanPathError
SendRDCleanPathError(i, errorMsg) == SendToWebSocket(PduItem(i, ErrorPDU(errorMsg)))

\* sendRDCleanPathPDU
SendRDCleanPathPDU(i, pdu) == SendToWebSocket(PduItem(i, pdu))

\* close(code, reason) without the check for a closing or closed bridge
JsCloseEffectUnguarded ==
    /\ js' = [js EXCEPT !.readyState = 2, !.closeTimer = TRUE,
                        !.goCloseCalls = @ + 1]
    /\ conn' = [conn EXCEPT !.cancelled = TRUE]

\* close(code, reason) of the bridge object
JsCloseEffect ==
    IF js.readyState \in {2, 3}
    THEN /\ js' = js
         /\ conn' = conn
    ELSE /\ js' = [js EXCEPT !.readyState = 2, !.closeTimer = TRUE,
                             !.goCloseCalls = @ + 1]
         /\ conn' = [conn EXCEPT !.cancelled = TRUE]

\* continuation of receiveFromGo after `await handleRDCleanPathResponse`
RxTrustDecided(k, trusted) ==
    /\ k \in 1..Len(rx)
    /\ rx[k] = "trust"
    /\ IF trusted
       THEN /\ js' = [js EXCEPT !.certificateValidated = TRUE]
            /\ rx' = [rx EXCEPT ![k] = "delivered"]
            /\ events' = Append(events, k)
            /\ conn' = conn
       ELSE /\ JsCloseEffect
            /\ rx' = [rx EXCEPT ![k] = "dropped"]
            /\ events' = events
    /\ UNCHANGED <<regVars, inbox, taskVars, remoteVars, wsSent, panicked, consumer, codec, tcp, nbws, registry, vnc, bridge>>

\* the consumer calls close()
JsClose ==
    /\ JsCloseEffect
    /\ consumer' = [consumer EXCEPT
            !.closeNoOps = IF js.readyState \in {2, 3} THEN @ + 1 ELSE @]
    /\ UNCHANGED <<regVars, inbox, taskVars, remoteVars, wsSent, rx, events, panicked, codec, tcp, nbws, registry, vnc, bridge>>

\* new RDCleanPathProxyWebSocket(url) when window.createRDCleanPathProxy is
\* missing: _connect throws before the Go side is called, and its catch block
\* closes the bridge and dispatches the close event
ConnectFailed ==
    /\ js.readyState = 0
    /\ js' = [js EXCEPT !.readyState = 3, !.closeEvents = @ + 1]
    /\ UNCHANGED <<regVars, conn, inbox, taskVars, remoteVars, wsSent, rx, events, panicked, consumer, codec, tcp, nbws, registry, vnc, bridge>>

\* the setTimeout callback of close()
JsCloseTimer ==
    /\ js.closeTimer
    /\ js' = [js EXCEPT !.readyState = 3, !.closeTimer = FALSE,
                        !.closeEvents = @ + 1]
    /\ UNCHANGED <<regVars, conn, inbox, taskVars, remoteVars, wsSent, rx, events, panicked, consumer, codec, tcp, nbws, registry, vnc, bridge>>

\* --------------------------------------------------------------- registry
Hostnames == {"host"}
Ports == {"5900"}

\* createProxy(hostname, port); a missing argument selects the default
Destinations == {JoinHostPort(h, p) : h \in Hostnames, p \in Ports}

\* createProxy that also hands the new destination to the session attached
\* under the id
CreateProxyMerging(destination) ==
    /\ ~panicked
    /\ LET proxyID == ProxyIDOf(Cardinality(activeConnections))
       IN /\ destinations' =
                [k \in DOMAIN destinations \cup {proxyID} |->
                    IF k = proxyID THEN destination ELSE destinations[k]]
          /\ consumer' = [consumer EXCEPT !.proxyIDs = Append(@, proxyID),
                                          !.requested = Append(@, destination)]
          /\ conn' = IF conn.attached /\ conn.id = proxyID
                     THEN [conn EXCEPT !.destination = destination] ELSE conn
    /\ UNCHANGED <<activeConnections, inbox, taskVars, remoteVars, jsVars, panicked, codec, tcp, nbws, registry, vnc, bridge>>

CreateProxy(destination) ==
    /\ ~panicked
    /\ LET proxyID == ProxyIDOf(Cardinality(activeConnections))
       IN /\ destinations' =
                [k \in DOMAIN destinations \cup {proxyID} |->
                    IF k = proxyID THEN destination ELSE destinations[k]]
          /\ consumer' = [consumer EXCEPT !.proxyIDs = Append(@, proxyID),
                                          !.requested = Append(@, destination)]
    /\ UNCHANGED <<activeConnections, conn, inbox, taskVars, remoteVars, jsVars, panicked, codec, tcp, nbws, registry, vnc, bridge>>

\* new RDCleanPathProxyWebSocket(url): _connect runs HandleWebSocketConnection,
\* opens the bridge and hands the queued messages to onGoMessage
HandleWebSocketConnection(proxyID) ==
    /\ ~panicked
    /\ ~conn.attached
    /\ js.readyState = 0
    /\ LET destination ==
            IF proxyID \in DOMAIN destinations /\ destinations[proxyID] # <<>>
            THEN destinations[proxyID] ELSE DefaultDestination
       IN conn' = [NoConn EXCEPT !.attached = TRUE, !.id = proxyID,
                                 !.destination = destination]
    /\ activeConnections' = activeConnections \cup {proxyID}
    /\ js' = [js EXCEPT !.readyState = 1, !.messageQueue = <<>>]
    /\ inbox' = inbox \o js.messageQueue
    /\ pc' = [i \in Tasks |->
                IF Len(inbox) < i /\ i <= Len(inbox) + Len(js.messageQueue)
                THEN "handle" ELSE pc[i]]
    /\ UNCHANGED <<destinations, loc, fwd, wsfwd, remoteVars, wsSent, rx, events, panicked, consumer, codec, tcp, nbws, registry, vnc, bridge>>

\* send(data) that hands the message to the Go side whatever the state of
\* the bridge
SendUnchecked(m) ==
    /\ ~panicked
    /\ Len(inbox) < MaxRelayMsgs
    /\ consumer' = [consumer EXCEPT !.sendCalls = @ + 1]
    /\ inbox' = Append(inbox, m)
    /\ pc' = [pc EXCEPT ![Len(inbox) + 1] = "handle"]
    /\ UNCHANGED <<regVars, conn, loc, fwd, wsfwd, remoteVars, jsVars, panicked, codec, tcp, nbws, registry, vnc, bridge>>

\* send(data): queued while connecting, an error unless the bridge is open;
\* on the open bridge _sendInternal calls onGoMessage, when the Go side has
\* set it, which starts one goroutine (handleWebSocketMessage) for the message
Send(m) ==
    /\ ~panicked
    /\ Len(inbox) < MaxRelayMsgs
    /\ consumer' = [consumer EXCEPT
            !.sendCalls = @ + 1,
            !.notOpenErrors = IF js.readyState \in {2, 3} THEN @ + 1 ELSE @]
    /\ IF js.readyState = 0
       THEN /\ js' = [js EXCEPT !.messageQueue = Append(@, m)]
            /\ UNCHANGED <<inbox, pc>>
       ELSE IF js.readyState # 1 \/ ~conn.attached
       THEN UNCHANGED <<js, inbox, pc>>
       ELSE /\ inbox' = Append(inbox, m)
            /\ pc' = [pc EXCEPT ![Len(inbox) + 1] = "handle"]
            /\ js' = js
    /\ UNCHANGED <<regVars, conn, loc, fwd, wsfwd, remoteVars, wsSent, rx, events, panicked, codec, tcp, nbws, registry, vnc, bridge>>

\* --------------------------------------------------- handleWebSocketMessage
\* net.Conn.Write / tls.Conn.Write on connection c: fails once c is closed
WriteOutcomes(c) == IF IsClosed(c) THEN {FALSE} ELSE BOOLEAN

\* forwardToRDP on the raw connection
ForwardRaw(i, c, ok) ==
    /\ ok \in WriteOutcomes(c)
    /\ remote' = IF ok THEN [remote EXCEPT ![c].rawWritten = Append(@, <<"msg", i>>)]
                 ELSE remote
    /\ pc' = [pc EXCEPT ![i] = "done"]
    /\ loc' = [loc EXCEPT ![i].outcome = IF ok THEN "forwarded" ELSE "writeerr"]

\* handleWebSocketMessage: forward when a handle is installed, otherwise
\* decode and start handleDirectRDP or processRDCleanPathPDU; the started
\* goroutine is followed up to its first blocking call (Dial), or to its
\* return when the version is not the supported one
HandleWebSocketMessage(i, ok) ==
    /\ ~panicked
    /\ pc[i] = "handle"
    /\ IF conn.rdpConn # 0 \/ conn.tlsConn # 0
       THEN /\ UNCHANGED jsVars
            /\ IF conn.tlsConn # 0
               THEN \* tlsConn.Write: blocks until the handshake is over
                    /\ ok
                    /\ pc' = [pc EXCEPT ![i] = "tlswrite"]
                    /\ loc' = [loc EXCEPT ![i].c = conn.tlsConn]
                    /\ remote' = remote
               ELSE ForwardRaw(i, conn.rdpConn, ok)
       ELSE /\ ok
            /\ remote' = remote
            /\ IF Unmarshal(inbox[i]).err
               THEN /\ UNCHANGED jsVars
                    /\ IF FirstByte(inbox[i]) = RDPMarker
                       THEN /\ pc' = [pc EXCEPT ![i] = "direct"]
                            /\ loc' = [loc EXCEPT ![i].mode = "direct"]
                       ELSE /\ pc' = [pc EXCEPT ![i] = "done"]
                            /\ loc' = [loc EXCEPT ![i].outcome = "dropped"]
               ELSE IF Unmarshal(inbox[i]).pdu.Version # RDCleanPathVersion
               THEN /\ SendRDCleanPathError(i, "Unsupported version")
                    /\ pc' = [pc EXCEPT ![i] = "done"]
                    /\ loc' = [loc EXCEPT ![i].outcome = "badversion"]
               ELSE /\ pc' = [pc EXCEPT ![i] = "dial"]
                    /\ loc' = loc
                    /\ UNCHANGED jsVars
    /\ UNCHANGED <<regVars, conn, inbox, fwd, wsfwd, dials, reads, panicked, consumer, codec, tcp, nbws, registry, vnc, bridge>>

\* forwardToRDP on the TLS connection: the write goes out once the handshake
\* has completed and fails when it failed or the connection is closed
ForwardTLSWrite(i, ok) ==
    /\ ~panicked
    /\ pc[i] = "tlswrite"
    /\ LET c == loc[i].c IN
        /\ remote[c].hs # "pending" \/ IsClosed(c)
        /\ ok \in (IF remote[c].hs # "ok" THEN {FALSE} ELSE WriteOutcomes(c))
        /\ remote' = IF ok THEN [remote EXCEPT ![c].tlsWritten = Append(@, <<"msg", i>>)]
                     ELSE remote
    /\ pc' = [pc EXCEPT ![i] = "done"]
    /\ loc' = [loc EXCEPT ![i].outcome = IF ok THEN "forwarded" ELSE "writeerr"]
    /\ UNCHANGED <<regVars, conn, inbox, fwd, wsfwd, dials, reads, jsVars, panicked, consumer, codec, tcp, nbws, registry, vnc, bridge>>

\* ---------------------------------------------------- processRDCleanPathPDU
Pdu(i) == Unmarshal(inbox[i]).pdu

\* the destination of the session whatever the PDU says
DialDestinationIgnoringPDU(i) == conn.destination

\* the destination processRDCleanPathPDU dials
DialDestination(i) ==
    IF Pdu(i).Destination # <<>> THEN Pdu(i).Destination ELSE conn.destination

\* a plain-path response that carries a certificate chain
PlainResponseWithChain(x224Response) ==
    [RDCleanPathPDU EXCEPT !.Version = RDCleanPathVersion,
                           !.X224ConnectionPDU = x224Response,
                           !.ServerCertChain = <<CertLeaf.Raw>>,
                           !.ServerAddr = conn.destination]

\* the response PDU of the plain path
PlainResponse(x224Response) ==
    [RDCleanPathPDU EXCEPT !.Version = RDCleanPathVersion,
                           !.X224ConnectionPDU = x224Response,
                           !.ServerAddr = conn.destination]

\* the chain without its leaf certificate
CertChainOfIssuers(peerCertificates) ==
    [j \in 1..(Len(peerCertificates) - 1) |-> peerCertificates[j + 1].Raw]

\* certChain = append(certChain, cert.Raw) over PeerCertificates
RECURSIVE CertChainOf(_)
CertChainOf(peerCertificates) ==
    IF peerCertificates = <<>> THEN <<>>
    ELSE <<Head(peerCertificates).Raw>> \o CertChainOf(Tail(peerCertificates))

\* the response PDU of the TLS path
TLSResponse(peerCertificates, x224Response) ==
    [RDCleanPathPDU EXCEPT !.Version = RDCleanPathVersion,
                           !.ServerAddr = conn.destination,
                           !.ServerCertChain = CertChainOf(peerCertificates),
                           !.X224ConnectionPDU = x224Response]

NewRemote(dest) == [NoRemote EXCEPT !.dest = dest]

\* setupPlainConnection from the response PDU on: send it, start
\* forwardTCPToWS, wait for the scope
PlainEstablish(i, x224Response) ==
    /\ SendRDCleanPathPDU(i, PlainResponse(x224Response))
    /\ fwd' = [fwd EXCEPT ![i] = [pc |-> "call", kind |-> "tcp", c |-> 0]]
    /\ pc' = [pc EXCEPT ![i] = "wait"]

\* Dial returns in processRDCleanPathPDU. On failure the error PDU is sent and
\* cleanupConnection entered. On success the handle is installed and
\* setupTLSConnection / setupPlainConnection run up to the call they block
\* in: the Read that follows the write of the X.224 request, the Handshake,
\* or <-ctx.Done() of the plain path without a request.
ProcessDialed(i, ok, writeOk) ==
    /\ ~panicked
    /\ pc[i] = "dial"
    /\ IF ~ok
       THEN /\ writeOk
            /\ SendRDCleanPathError(i, "Connection failed")
            /\ pc' = [pc EXCEPT ![i] = "cleanup"]
            /\ loc' = [loc EXCEPT ![i].outcome = "dialfail"]
            /\ UNCHANGED <<conn, fwd, remoteVars>>
       ELSE /\ dials < MaxDials
            /\ LET c == dials + 1
                   useTLS == HasSuffix(DialDestination(i), TLSPortSuffix)
                   hasX224 == Len(Pdu(i).X224ConnectionPDU) > 0
                   mode == IF useTLS THEN "tls" ELSE "plain"
               IN
                /\ dials' = c
                /\ reads' = reads
                /\ IF hasX224
                   THEN /\ conn' = [conn EXCEPT !.rdpConn = c]
                        /\ remote' = [remote EXCEPT ![c] =
                                [NewRemote(DialDestination(i)) EXCEPT !.rawWritten =
                                    IF writeOk THEN <<<<"x224", i, Pdu(i).X224ConnectionPDU>>>>
                                    ELSE <<>>]]
                        /\ fwd' = fwd
                        /\ IF writeOk
                           THEN /\ pc' = [pc EXCEPT ![i] = "x224read"]
                                /\ loc' = [loc EXCEPT ![i].c = c, ![i].mode = mode,
                                                      ![i].outcome = "dialed"]
                                /\ UNCHANGED jsVars
                           ELSE /\ SendRDCleanPathError(i, "Failed to forward X.224")
                                /\ pc' = [pc EXCEPT ![i] = "done"]
                                /\ loc' = [loc EXCEPT ![i].c = c, ![i].mode = mode,
                                                      ![i].outcome = "x224writeerr"]
                   ELSE IF useTLS
                   THEN /\ writeOk
                        /\ conn' = [conn EXCEPT !.rdpConn = c, !.tlsConn = c]
                        /\ remote' = [remote EXCEPT ![c] =
                                [NewRemote(DialDestination(i)) EXCEPT !.hs = "pending"]]
                        /\ pc' = [pc EXCEPT ![i] = "handshake"]
                        /\ loc' = [loc EXCEPT ![i].c = c, ![i].mode = mode,
                                              ![i].outcome = "dialed"]
                        /\ UNCHANGED <<fwd, jsVars>>
                   ELSE /\ writeOk
                        /\ conn' = [conn EXCEPT !.rdpConn = c]
                        /\ remote' = [remote EXCEPT ![c] = NewRemote(DialDestination(i))]
                        /\ loc' = [loc EXCEPT ![i].c = c, ![i].mode = mode,
                                              ![i].outcome = "established"]
                        /\ PlainEstablish(i, <<>>)
    /\ UNCHANGED <<regVars, inbox, wsfwd, panicked, consumer, codec, tcp, nbws, registry, vnc, bridge>>

\* the bytes the remote answers to the X.224 connection request
X224Confirm == <<3, 0, 0, 19, 14>>

\* response[:n] of a Read into a buffer of `limit` bytes
ReadInto(limit, available) ==
    SubSeq(available, 1, IF Len(available) < limit THEN Len(available) ELSE limit)

\* setupTLSConnection / setupPlainConnection: read of the X.224 response,
\* then on to the handshake call (TLS) or to the response PDU (plain)
X224Read(i, ok) ==
    /\ ~panicked
    /\ pc[i] = "x224read"
    /\ LET c == loc[i].c
           x224Response == ReadInto(X224ReadLimit, X224Confirm)
       IN
       IF ~ok
       THEN /\ SendRDCleanPathError(i, "Failed to read X.224 response")
            /\ pc' = [pc EXCEPT ![i] = "done"]
            /\ loc' = [loc EXCEPT ![i].outcome = "x224readerr"]
            /\ UNCHANGED <<conn, fwd, remote, panicked>>
       ELSE /\ ~IsClosed(c)
            /\ IF loc[i].mode = "tls"
               THEN IF conn.rdpConn = 0
                    THEN \* tls.Client(nil).Handshake()
                         /\ panicked' = TRUE
                         /\ UNCHANGED <<conn, pc, loc, fwd, remote, jsVars>>
                    ELSE /\ conn' = [conn EXCEPT !.tlsConn = conn.rdpConn]
                         /\ remote' = [remote EXCEPT ![conn.rdpConn].hs =
                                          IF @ = "none" THEN "pending" ELSE @]
                         /\ loc' = [loc EXCEPT ![i].c = conn.rdpConn,
                                               ![i].x224Response = x224Response]
                         /\ pc' = [pc EXCEPT ![i] = "handshake"]
                         /\ UNCHANGED <<fwd, jsVars, panicked>>
               ELSE /\ PlainEstablish(i, x224Response)
                    /\ loc' = [loc EXCEPT ![i].x224Response = x224Response,
                                          ![i].outcome = "established"]
                    /\ UNCHANGED <<conn, remote, panicked>>
    /\ UNCHANGED <<regVars, inbox, wsfwd, dials, reads, consumer, codec, tcp, nbws, registry, vnc, bridge>>

\* setupTLSConnection: Handshake returns; on success the chain is read, the
\* response PDU sent and forwardTLSToWS started
Handshake(i, ok, peerCertificates) ==
    /\ ~panicked
    /\ pc[i] = "handshake"
    /\ LET c == loc[i].c IN
       IF ~ok
       THEN /\ peerCertificates = <<>>
            /\ remote' = [remote EXCEPT ![c].hs = IF @ = "ok" THEN @ ELSE "failed"]
            /\ SendRDCleanPathError(i, "TLS handshake failed")
            /\ pc' = [pc EXCEPT ![i] = "done"]
            /\ loc' = [loc EXCEPT ![i].outcome = "handshakefail"]
            /\ fwd' = fwd
       ELSE IF ~(InsecureSkipVerify \/ ChainVerifies(peerCertificates))
       THEN \* the client refuses the chain the remote presented
            /\ ~IsClosed(c)
            /\ remote[c].hs = "pending"
            /\ peerCertificates \in PeerChains
            /\ remote' = [remote EXCEPT ![c].hs = "failed", ![c].chain = peerCertificates]
            /\ SendRDCleanPathError(i, "TLS handshake failed")
            /\ pc' = [pc EXCEPT ![i] = "done"]
            /\ loc' = [loc EXCEPT ![i].outcome = "handshakefail"]
            /\ fwd' = fwd
       ELSE /\ ~IsClosed(c)
            /\ remote[c].hs = "pending"
            /\ peerCertificates \in PeerChains
            /\ remote' = [remote EXCEPT ![c].hs = "ok", ![c].chain = peerCertificates]
            /\ SendRDCleanPathPDU(i, TLSResponse(peerCertificates,
                    IF Len(loc[i].x224Response) > 0 THEN loc[i].x224Response ELSE <<>>))
            /\ fwd' = [fwd EXCEPT ![i] = [pc |-> "call", kind |-> "tls", c |-> 0]]
            /\ pc' = [pc EXCEPT ![i] = "wait"]
            /\ loc' = [loc EXCEPT ![i].outcome = "established"]
    /\ UNCHANGED <<regVars, conn, inbox, wsfwd, dials, reads, panicked, consumer, codec, tcp, nbws, registry, vnc, bridge>>

\* <-conn.ctx.Done() at the end of setupTLSConnection / setupPlainConnection
WaitDone(i) ==
    /\ ~panicked
    /\ pc[i] = "wait"
    /\ conn.cancelled
    /\ pc' = [pc EXCEPT ![i] = "cleanup"]
    /\ UNCHANGED <<regVars, conn, inbox, loc, fwd, wsfwd, remoteVars, jsVars, panicked, consumer, codec, tcp, nbws, registry, vnc, bridge>>

\* -------------------------------------------------------- cleanupConnection
\* delete(p.activeConnections, conn.id) and return
CleanupFinish(i) ==
    /\ activeConnections' = activeConnections \ {conn.id}
    /\ pc' = [pc EXCEPT ![i] = "done"]
    /\ loc' = [loc EXCEPT ![i].cleaned = TRUE]

\* cleanupConnection up to the return of conn.tlsConn.Close(), the one call
\* it can block in; without a TLS handle it runs to its end
CleanupStart(i) ==
    /\ ~panicked
    /\ pc[i] = "cleanup"
    /\ IF conn.tlsConn # 0
       THEN /\ conn' = [conn EXCEPT !.cancelled = TRUE]
            /\ remote' = [remote EXCEPT ![conn.tlsConn].tlsCloses = @ + 1]
            /\ pc' = [pc EXCEPT ![i] = "cl_rest"]
            /\ UNCHANGED <<activeConnections, loc>>
       ELSE /\ conn' = [conn EXCEPT !.cancelled = TRUE, !.rdpConn = 0]
            /\ remote' = IF conn.rdpConn # 0
                         THEN [remote EXCEPT ![conn.rdpConn].rdpCloses = @ + 1]
                         ELSE remote
            /\ CleanupFinish(i)
    /\ UNCHANGED <<destinations, inbox, fwd, wsfwd, dials, reads, jsVars, panicked, consumer, codec, tcp, nbws, registry, vnc, bridge>>

\* cleanupConnection after conn.tlsConn.Close(): clear the TLS handle, close
\* and clear the TCP handle, delete the registry entry
CleanupRest(i) ==
    /\ ~panicked
    /\ pc[i] = "cl_rest"
    /\ conn' = [conn EXCEPT !.tlsConn = 0, !.rdpConn = 0]
    /\ remote' = IF conn.rdpConn # 0
                 THEN [remote EXCEPT ![conn.rdpConn].rdpCloses = @ + 1]
                 ELSE remote
    /\ CleanupFinish(i)
    /\ UNCHANGED <<destinations, inbox, fwd, wsfwd, dials, reads, jsVars, panicked, consumer, codec, tcp, nbws, registry, vnc, bridge>>

\* ----------------------------------------------------------- handleDirectRDP
\* Dial returns in handleDirectRDP; on success the handle is installed and
\* the first packet written
DirectDialed(i, dialOk, writeOk) ==
    /\ ~panicked
    /\ pc[i] = "direct"
    /\ IF ~dialOk
       THEN /\ writeOk
            /\ pc' = [pc EXCEPT ![i] = "cleanup"]
            /\ loc' = [loc EXCEPT ![i].outcome = "directdialfail"]
            /\ UNCHANGED <<conn, remoteVars>>
       ELSE /\ dials < MaxDials
            /\ LET c == dials + 1 IN
                /\ dials' = c
                /\ reads' = reads
                /\ conn' = [conn EXCEPT !.rdpConn = c]
                /\ remote' = [remote EXCEPT ![c] =
                        [NewRemote(conn.destination) EXCEPT !.rawWritten =
                            IF writeOk THEN <<<<"first", i>>>> ELSE <<>>]]
                /\ loc' = [loc EXCEPT ![i].c = c,
                                      ![i].outcome = IF writeOk THEN "directdialed"
                                                     ELSE "directwriteerr"]
                /\ pc' = [pc EXCEPT ![i] = IF writeOk THEN "directread" ELSE "cleanup"]
    /\ UNCHANGED <<regVars, inbox, fwd, wsfwd, jsVars, panicked, consumer, codec, tcp, nbws, registry, vnc, bridge>>

\* handleDirectRDP: the first response is read and relayed, both forwarders
\* are started, and the function returns into its deferred cleanupConnection
DirectRead(i, ok) ==
    /\ ~panicked
    /\ pc[i] = "directread"
    /\ IF ~ok
       THEN /\ loc' = [loc EXCEPT ![i].outcome = "directreaderr"]
            /\ UNCHANGED <<fwd, wsfwd, reads, jsVars>>
       ELSE /\ ~IsClosed(loc[i].c)
            /\ reads < MaxReads
            /\ reads' = reads + 1
            /\ SendToWebSocket(DataItem(i, reads + 1))
            /\ wsfwd' = [wsfwd EXCEPT ![i] = "wait"]
            /\ fwd' = [fwd EXCEPT ![i] = [pc |-> "call", kind |-> "tcp", c |-> 0]]
            /\ loc' = [loc EXCEPT ![i].outcome = "direct"]
    /\ pc' = [pc EXCEPT ![i] = "cleanup"]
    /\ UNCHANGED <<regVars, conn, inbox, remote, dials, panicked, consumer, codec, tcp, nbws, registry, vnc, bridge>>

\* --------------------------------------------------------------- forwarders
\* forwardTCPToWS / forwardTLSToWS: conn.rdpConn.Read / conn.tlsConn.Read is
\* called on the handle the field holds now
ForwardCall(i) ==
    /\ ~panicked
    /\ fwd[i].pc = "call"
    /\ LET h == IF fwd[i].kind = "tls" THEN conn.tlsConn ELSE conn.rdpConn IN
       IF h = 0
       THEN /\ panicked' = TRUE
            /\ fwd' = fwd
       ELSE /\ fwd' = [fwd EXCEPT ![i].pc = "read", ![i].c = h]
            /\ panicked' = panicked
    /\ UNCHANGED <<regVars, conn, inbox, pc, loc, wsfwd, remoteVars, jsVars, consumer, codec, tcp, nbws, registry, vnc, bridge>>

\* forwardTCPToWS / forwardTLSToWS: Read returns; data goes to the bridge,
\* an error or EOF ends the loop
ForwardRead(i, ok) ==
    /\ ~panicked
    /\ fwd[i].pc = "read"
    /\ IF ok
       THEN /\ ~IsClosed(fwd[i].c)
            /\ reads < MaxReads
            /\ reads' = reads + 1
            /\ SendToWebSocket(DataItem(i, reads + 1))
            /\ fwd' = [fwd EXCEPT ![i].pc = "call"]
       ELSE /\ fwd' = [fwd EXCEPT ![i].pc = "done"]
            /\ UNCHANGED <<reads, jsVars>>
    /\ UNCHANGED <<regVars, conn, inbox, pc, loc, wsfwd, remote, dials, panicked, consumer, codec, tcp, nbws, registry, vnc, bridge>>

\* forwardWSToTCP: nothing ever calls onceGoMessage, so readWebSocketMessage
\* returns only when the scope is cancelled
ForwardWSToTCP(i) ==
    /\ ~panicked
    /\ wsfwd[i] = "wait"
    /\ conn.cancelled
    /\ wsfwd' = [wsfwd EXCEPT ![i] = "done"]
    /\ UNCHANGED <<regVars, conn, inbox, pc, loc, fwd, remoteVars, jsVars, panicked, consumer, codec, tcp, nbws, registry, vnc, bridge>>

\* ------------------------------------------------------------ specification
\* steps of the goroutines of the Go side
GoStep ==
    \/ \E i \in Tasks, ok \in BOOLEAN : HandleWebSocketMessage(i, ok)
    \/ \E i \in Tasks, ok \in BOOLEAN : ForwardTLSWrite(i, ok)
    \/ \E i \in Tasks, ok \in BOOLEAN : X224Read(i, ok)
    \/ \E i \in Tasks, ok \in BOOLEAN, ch \in PeerChains : Handshake(i, ok, ch)
    \/ \E i \in Tasks : WaitDone(i)
    \/ \E i \in Tasks : CleanupStart(i)
    \/ \E i \in Tasks : CleanupRest(i)
    \/ \E i \in Tasks, dialOk \in BOOLEAN, writeOk \in BOOLEAN : DirectDialed(i, dialOk, writeOk)
    \/ \E i \in Tasks, ok \in BOOLEAN : DirectRead(i, ok)
    \/ \E i \in Tasks : ForwardCall(i)
    \/ \E i \in Tasks, ok \in BOOLEAN : ForwardRead(i, ok)
    \/ \E i \in Tasks : ForwardWSToTCP(i)

Next ==
    \/ \E d \in Destinations :
        /\ ~conn.attached
        /\ consumer.proxyIDs = <<>>
        /\ CreateProxy(d)
    \/ HandleWebSocketConnection(ProxyIDOf(0))
    \/ \E m \in Messages :
        /\ js.readyState = 1
        /\ Len(inbox) < MaxMsgs
        /\ m \in (IF inbox = <<>> THEN FirstMessages ELSE LaterMessages)
        /\ Send(m)
    \/ (js.readyState = 1 /\ JsClose)
    \/ JsCloseTimer
    \/ \E k \in 1..(MaxMsgs + MaxReads + 1), t \in BOOLEAN : RxTrustDecided(k, t)
    \/ \E i \in Tasks, ok \in BOOLEAN, writeOk \in BOOLEAN : ProcessDialed(i, ok, writeOk)
    \/ GoStep

Spec == Init /\ [][Next]_vars

\* The relay of an established session: no certificate handler is installed,
\* the first message is a request of the supported version, every later
\* message is data, and the first dial succeeds.
RelayRequests == {DerMsg(ReqDefault), DerMsg(ReqX224), DerMsg(ReqPlain)}

InitRelay == Init /\ ~js.certificateHandler

NextRelay ==
    \/ HandleWebSocketConnection(ProxyIDOf(0))
    \/ \E m \in Messages :
        /\ js.readyState = 1
        /\ m \in (IF inbox = <<>> THEN RelayRequests ELSE {RawMsg(RawRDP)})
        /\ Send(m)
    \/ (js.readyState = 1 /\ JsClose)
    \/ JsCloseTimer
    \/ \E i \in Tasks, ok \in BOOLEAN : ProcessDialed(i, ok \/ dials = 0, TRUE)
    \/ GoStep

SpecRelay == InitRelay /\ [][NextRelay]_vars

\* The decoder on bytes: one message, drawn from encodings of requests and
\* from byte strings that are not well-formed encodings, is sent on an open
\* bridge and handled.
EncVersion == <<48, 6, 160, 4, 2, 2, 13, 62>>
EncX224 == <<48, 11, 160, 4, 2, 2, 13, 62, 166, 3, 4, 1, 3>>

\* Byte strings that are no encoding of a PDU: fewer than two bytes;
\* EncVersion cut short, so that the length of the SEQUENCE exceeds what
\* follows; EncVersion with one of its three length bytes (of the SEQUENCE,
\* of the explicit tag, of the INTEGER) raised by one; a SEQUENCE without
\* the Version field, empty or starting with field 6.
MalformedInputs ==
    {<<>>, <<48>>, <<RDPMarker>>}
        \cup {SubSeq(EncVersion, 1, k) : k \in 2..(Len(EncVersion) - 1)}
        \cup {[EncVersion EXCEPT ![k] = @ + 1] : k \in {2, 4, 6}}
        \cup {<<48, 0>>, <<48, 5, 166, 3, 4, 1, 3>>}

\* the inputs of the decoder: the malformed ones, two requests, a PDU of
\* version 1 and raw RDP bytes
DecodeInputs ==
    MalformedInputs \cup {EncVersion, EncX224, <<48, 5, 160, 3, 2, 1, 1>>, RawRDP}

NextDecode ==
    \/ HandleWebSocketConnection(ProxyIDOf(0))
    \/ \E bytes \in DecodeInputs :
        /\ js.readyState = 1
        /\ inbox = <<>>
        /\ Send(BytesMsg(bytes))
    \/ \E k \in 1..(MaxReads + 2), t \in BOOLEAN : RxTrustDecided(k, t)
    \/ \E i \in Tasks : HandleWebSocketMessage(i, TRUE)
    \/ \E i \in Tasks, ok \in BOOLEAN, writeOk \in BOOLEAN : ProcessDialed(i, ok, writeOk)
    \/ \E i \in Tasks, ok \in BOOLEAN : X224Read(i, ok)
    \/ \E i \in Tasks, ok \in BOOLEAN, ch \in PeerChains : Handshake(i, ok, ch)
    \/ \E i \in Tasks : WaitDone(i)
    \/ \E i \in Tasks : CleanupStart(i)
    \/ \E i \in Tasks : CleanupRest(i)
    \/ \E i \in Tasks, dialOk \in BOOLEAN, writeOk \in BOOLEAN : DirectDialed(i, dialOk, writeOk)
    \/ \E i \in Tasks, ok \in BOOLEAN : DirectRead(i, ok)
    \/ \E i \in Tasks : ForwardCall(i)
    \/ \E i \in Tasks, ok \in BOOLEAN : ForwardRead(i, ok)

SpecDecode == Init /\ [][NextDecode]_vars

\* The bridge object and its caller: the caller may call createProxy, send()
\* and close() at any time once it holds the object, the window may lack the
\* Go entry points, and every request is the default one.
BridgeMessages == {DerMsg(ReqDefault)}

NextBridge ==
    \/ \E d \in Destinations :
        /\ Len(consumer.proxyIDs) < MaxCalls
        /\ CreateProxy(d)
    \/ HandleWebSocketConnection(ProxyIDOf(0))
    \/ ConnectFailed
    \/ \E m \in BridgeMessages :
        /\ js.readyState # 0
        /\ IF js.readyState = 1 THEN Len(inbox) < MaxBridgeMsgs
           ELSE consumer.notOpenErrors < MaxCalls
        /\ Send(m)
    \/ (js.readyState # 0 /\ consumer.closeNoOps < MaxCalls /\ JsClose)
    \/ JsCloseTimer
    \/ \E k \in 1..(MaxBridgeMsgs + MaxReads + 1), t \in BOOLEAN : RxTrustDecided(k, t)
    \/ \E i \in Tasks, ok \in BOOLEAN : ProcessDialed(i, ok, TRUE)
    \/ \E i \in Tasks : HandleWebSocketMessage(i, TRUE)
    \/ \E i \in Tasks, ok \in BOOLEAN, ch \in PeerChains : Handshake(i, ok, ch)
    \/ \E i \in Tasks : WaitDone(i)
    \/ \E i \in Tasks : CleanupStart(i)
    \/ \E i \in Tasks : CleanupRest(i)
    \/ \E i \in Tasks : ForwardCall(i)
    \/ \E i \in Tasks, ok \in BOOLEAN : ForwardRead(i, ok)

SpecBridge == Init /\ [][NextBridge]_vars

\* The destination table and one session: the caller registers the
\* destination it names or, naming none, the default one, as often as it
\* likes, and opens its bridge under the first or the second proxy id.
NextRegister ==
    \/ \E d \in Destinations \cup {DefaultDestination} :
        /\ Len(consumer.proxyIDs) < MaxCalls
        /\ CreateProxy(d)
    \/ \E proxyID \in {ProxyIDOf(0), ProxyIDOf(1)} : HandleWebSocketConnection(proxyID)
    \/ \E m \in BridgeMessages :
        /\ js.readyState = 1
        /\ Len(inbox) < MaxBridgeMsgs
        /\ Send(m)
    \/ (js.readyState = 1 /\ JsClose)
    \/ JsCloseTimer
    \/ \E k \in 1..(MaxBridgeMsgs + MaxReads + 1), t \in BOOLEAN : RxTrustDecided(k, t)
    \/ \E i \in Tasks, ok \in BOOLEAN : ProcessDialed(i, ok, TRUE)
    \/ \E i \in Tasks : HandleWebSocketMessage(i, TRUE)
    \/ \E i \in Tasks, ok \in BOOLEAN, ch \in PeerChains : Handshake(i, ok, ch)
    \/ \E i \in Tasks : WaitDone(i)
    \/ \E i \in Tasks : CleanupStart(i)
    \/ \E i \in Tasks : CleanupRest(i)
    \/ \E i \in Tasks : ForwardCall(i)
    \/ \E i \in Tasks, ok \in BOOLEAN : ForwardRead(i, ok)

SpecRegister == Init /\ [][NextRegister]_vars

\* ------------------------------------------------------------------ codec
\* A message as its sender means it: each optional field is absent, present
\* with no content, or present with content.
CodecFields == {"Error", "Destination", "X224ConnectionPDU", "ServerCertChain", "ServerAddr"}
CodecMessages == [CodecFields -> {"absent", "empty", "value"}]

\* a content for every field
SampleValue ==
    [Error |-> "Connection failed", Destination |-> <<"host", ":", "3389">>,
     X224ConnectionPDU |-> X224Request, ServerCertChain |-> <<CertLeaf.Raw>>,
     ServerAddr |-> <<"host", ":", "3389">>]

\* the struct value that holds message m: an absent field is left at the zero
\* value; a present field is set to its content, which for an empty slice is
\* a slice of length 0 and for an empty string is ""
StructOf(m) ==
    [f \in FieldNames \cup {"emptySlices"} |->
        IF f = "emptySlices" THEN {g \in SliceFields \cap CodecFields : m[g] = "empty"}
        ELSE IF f = "Version" THEN RDCleanPathVersion
        ELSE IF f \in CodecFields /\ m[f] = "value" THEN SampleValue[f]
        ELSE RDCleanPathPDU[f]]

\* the message a struct value holds, read the way the program reads it: a
\* string field is there when it is not "" (pdu.Destination != ""), a slice
\* field when it is not nil
MessageOf(pdu) ==
    [f \in CodecFields |->
        IF ~IsEmptyField(pdu, f) THEN "value"
        ELSE IF f \in pdu.emptySlices THEN "empty"
        ELSE "absent"]

\* asn1.Marshal of the struct that holds the message
CodecMarshal ==
    /\ codec.pc = "start"
    /\ codec' = [codec EXCEPT !.pc = "encoded", !.pdu = StructOf(codec.m),
                              !.wire = Marshal(StructOf(codec.m))]
    /\ UNCHANGED <<regVars, conn, inbox, taskVars, remoteVars, jsVars, panicked, consumer,
                   tcp, nbws, registry, vnc, bridge>>

\* asn1.Unmarshal of the encoding into a new struct
CodecUnmarshal ==
    /\ codec.pc = "encoded"
    /\ codec' = [codec EXCEPT !.pc = "decoded", !.out = UnmarshalDER(codec.wire)]
    /\ UNCHANGED <<regVars, conn, inbox, taskVars, remoteVars, jsVars, panicked, consumer,
                   tcp, nbws, registry, vnc, bridge>>

InitCodec ==
    /\ destinations = << >>
    /\ activeConnections = {}
    /\ conn = NoConn
    /\ inbox = <<>>
    /\ pc = [i \in Tasks |-> "none"]
    /\ loc = [i \in Tasks |-> NoLoc]
    /\ fwd = [i \in Tasks |-> NoFwd]
    /\ wsfwd = [i \in Tasks |-> "none"]
    /\ remote = [c \in ConnIds |-> NoRemote]
    /\ dials = 0
    /\ reads = 0
    /\ wsSent = <<>>
    /\ rx = <<>>
    /\ events = <<>>
    /\ js = [readyState |-> 0, certificateHandler |-> FALSE,
             certificateValidated |-> FALSE, closeTimer |-> FALSE,
             closeEvents |-> 0, goCloseCalls |-> 0, messageQueue |-> <<>>]
    /\ panicked = FALSE
    /\ consumer = NoConsumer
    /\ codec \in {[NoCodec EXCEPT !.pc = "start", !.m = m] : m \in CodecMessages}
    /\ tcp = NoTCP
    /\ nbws = NoNetBirdWebSocket
    /\ registry = NoRegistry
    /\ vnc = NoVNC
    /\ bridge = NoBridge

NextCodec ==
    \/ CodecMarshal
    \/ CodecUnmarshal

SpecCodec == InitCodec /\ [][NextCodec]_vars

\* ------------------------------------------- forwarder: the TCP proxy helper
\* proxyConnections and proxyConnectionsHalfClose between a client and a
\* server connection. A peer's bytes are numbered 1, 2, ... in the order it
\* writes them; EndOfStream in a stream stands for the end of the peer's
\* (or the proxy's) writing. stream[side] is what the peer on that side has
\* written and the proxy has not read yet, got[side] what that peer has
\* received, handle[side] the calls made on the proxy's net.Conn of that side
\* ("close", "closeRead", "closeWrite").
Src(dir) == IF dir = "c2s" THEN "client" ELSE "server"
Dst(dir) == IF dir = "c2s" THEN "server" ELSE "client"

\* the peer receives the end of the stream once
Finish(stream) ==
    IF stream # <<>> /\ stream[Len(stream)] = EndOfStream THEN stream
    ELSE Append(stream, EndOfStream)

\* ---- the peers
\* the peer on `side` writes its next byte; it is lost when the proxy has
\* closed its connection or shut down reading
PeerWrite(side, max) ==
    /\ tcp.impl # "none"
    /\ tcp.peer[side].state = "open"
    /\ tcp.peer[side].wrote < max
    /\ tcp' = [tcp EXCEPT
                 !.peer[side].wrote = @ + 1,
                 !.stream[side] = IF tcp.handle[side] \cap {"close", "closeRead"} # {}
                                  THEN @ ELSE Append(@, tcp.peer[side].wrote + 1)]
    /\ UNCHANGED <<regVars, conn, inbox, taskVars, remoteVars, jsVars, panicked, consumer,
                   codec, nbws, registry, vnc, bridge>>

\* the peer shuts down writing (CloseWrite on a *net.TCPConn)
PeerCloseWrite(side) ==
    /\ tcp.impl # "none"
    /\ tcp.isTCP
    /\ tcp.peer[side].state = "open"
    /\ tcp' = [tcp EXCEPT
                 !.peer[side].state = "closedWrite",
                 !.stream[side] = IF tcp.handle[side] \cap {"close", "closeRead"} # {}
                                  THEN @ ELSE Finish(@)]
    /\ UNCHANGED <<regVars, conn, inbox, taskVars, remoteVars, jsVars, panicked, consumer,
                   codec, nbws, registry, vnc, bridge>>

\* the peer closes its connection
PeerClose(side) ==
    /\ tcp.impl # "none"
    /\ tcp.peer[side].state # "closed"
    /\ tcp' = [tcp EXCEPT
                 !.peer[side].state = "closed",
                 !.stream[side] = IF tcp.handle[side] \cap {"close", "closeRead"} # {}
                                  THEN @ ELSE Finish(@)]
    /\ UNCHANGED <<regVars, conn, inbox, taskVars, remoteVars, jsVars, panicked, consumer,
                   codec, nbws, registry, vnc, bridge>>

\* the context passed to the proxy is cancelled by its owner
ParentCancel ==
    /\ tcp.impl # "none"
    /\ ~tcp.returned
    /\ ~tcp.cancelled
    /\ tcp' = [tcp EXCEPT !.cancelled = TRUE]
    /\ UNCHANGED <<regVars, conn, inbox, taskVars, remoteVars, jsVars, panicked, consumer,
                   codec, nbws, registry, vnc, bridge>>

\* ---- the proxy
\* the call: both copy goroutines are started, and for proxyConnections the
\* cleanup goroutine
StartProxy(impl, isTCP) ==
    /\ tcp.impl = "none"
    /\ tcp' = [tcp EXCEPT
                 !.impl = impl, !.isTCP = isTCP,
                 !.copy = [dir \in Directions |-> [pc |-> "read", hold |-> 0, err |-> FALSE]],
                 !.cleanup = IF impl = "full" THEN "wait" ELSE "none"]
    /\ UNCHANGED <<regVars, conn, inbox, taskVars, remoteVars, jsVars, panicked, consumer,
                   codec, nbws, registry, vnc, bridge>>

ProxyConnections(isTCP) == StartProxy("full", isTCP)
ProxyConnectionsHalfClose(isTCP) == StartProxy("half", isTCP)

\* io.Copy has returned in direction dir: proxyConnections cancels the
\* context, proxyConnectionsHalfClose goes on to the half-close
CopyReturnedNoCancel(dir, err) ==
    [tcp EXCEPT !.copy[dir] = [pc |-> IF tcp.impl = "full" THEN "done" ELSE "closeWrite",
                               hold |-> 0, err |-> err]]

CopyReturned(dir, err) ==
    [tcp EXCEPT !.copy[dir] = [pc |-> IF tcp.impl = "full" THEN "done" ELSE "closeWrite",
                               hold |-> 0, err |-> err],
                !.cancelled = @ \/ tcp.impl = "full"]

\* io.Copy, the Read: an error on a closed connection, the end of the
\* stream, or the next byte; it blocks while the peer has written nothing
CopyRead(dir) ==
    /\ tcp.copy[dir].pc = "read"
    /\ IF "close" \in tcp.handle[Src(dir)]
       THEN tcp' = CopyReturned(dir, TRUE)
       ELSE IF "closeRead" \in tcp.handle[Src(dir)]
       THEN tcp' = CopyReturned(dir, FALSE)
       ELSE /\ tcp.stream[Src(dir)] # <<>>
            /\ IF Head(tcp.stream[Src(dir)]) = EndOfStream
               THEN tcp' = CopyReturned(dir, FALSE)
               ELSE tcp' = [tcp EXCEPT !.copy[dir].pc = "write",
                                       !.copy[dir].hold = Head(tcp.stream[Src(dir)]),
                                       !.stream[Src(dir)] = Tail(@)]
    /\ UNCHANGED <<regVars, conn, inbox, taskVars, remoteVars, jsVars, panicked, consumer,
                   codec, nbws, registry, vnc, bridge>>

\* io.Copy, the Write of the byte just read: an error on a connection the
\* proxy closed or shut down for writing; to a peer that closed, an error
\* (ok false) or a write that is accepted and lost
CopyWrite(dir, ok) ==
    /\ tcp.copy[dir].pc = "write"
    /\ IF tcp.handle[Dst(dir)] \cap {"close", "closeWrite"} # {}
       THEN /\ ~ok
            /\ tcp' = CopyReturned(dir, TRUE)
       ELSE IF tcp.peer[Dst(dir)].state = "closed"
       THEN tcp' = IF ok THEN [tcp EXCEPT !.copy[dir].pc = "read", !.copy[dir].hold = 0]
                   ELSE CopyReturned(dir, TRUE)
       ELSE /\ ok
            /\ tcp' = [tcp EXCEPT !.copy[dir].pc = "read", !.copy[dir].hold = 0,
                                  !.got[Dst(dir)] = Append(@, tcp.copy[dir].hold)]
    /\ UNCHANGED <<regVars, conn, inbox, taskVars, remoteVars, jsVars, panicked, consumer,
                   codec, nbws, registry, vnc, bridge>>

\* proxyConnectionsHalfClose after io.Copy without the CloseWrite
HalfCloseWriteSkipped(dir) ==
    /\ tcp.copy[dir].pc = "closeWrite"
    /\ tcp' = [tcp EXCEPT !.copy[dir].pc = "closeRead"]
    /\ UNCHANGED <<regVars, conn, inbox, taskVars, remoteVars, jsVars, panicked, consumer,
                   codec, nbws, registry, vnc, bridge>>

\* proxyConnectionsHalfClose after io.Copy: CloseWrite on the destination
\* when it is a *net.TCPConn; the peer there receives the end of the stream
HalfCloseWrite(dir) ==
    /\ tcp.copy[dir].pc = "closeWrite"
    /\ tcp' = IF tcp.isTCP /\ "close" \notin tcp.handle[Dst(dir)]
              THEN [tcp EXCEPT !.copy[dir].pc = "closeRead",
                               !.handle[Dst(dir)] = @ \cup {"closeWrite"},
                               !.got[Dst(dir)] = Finish(@)]
              ELSE [tcp EXCEPT !.copy[dir].pc = "closeRead"]
    /\ UNCHANGED <<regVars, conn, inbox, taskVars, remoteVars, jsVars, panicked, consumer,
                   codec, nbws, registry, vnc, bridge>>

\* then CloseRead on the source when it is a *net.TCPConn: what the peer
\* there has sent and sends from now on is dropped; wg.Done
HalfCloseRead(dir) ==
    /\ tcp.copy[dir].pc = "closeRead"
    /\ tcp' = IF tcp.isTCP /\ "close" \notin tcp.handle[Src(dir)]
              THEN [tcp EXCEPT !.copy[dir].pc = "done",
                               !.handle[Src(dir)] = @ \cup {"closeRead"},
                               !.stream[Src(dir)] = <<>>]
              ELSE [tcp EXCEPT !.copy[dir].pc = "done"]
    /\ UNCHANGED <<regVars, conn, inbox, taskVars, remoteVars, jsVars, panicked, consumer,
                   codec, nbws, registry, vnc, bridge>>

\* connection `side` of the proxy after Close: the peer receives the end of
\* the stream, what it sent and was not read is dropped
CloseHandle(t, side) ==
    [t EXCEPT !.handle[side] = @ \cup {"close"},
              !.got[side] = IF "closeWrite" \in t.handle[side] THEN @ ELSE Finish(@),
              !.stream[side] = <<>>]

\* the cleanup goroutine of proxyConnections: <-ctx.Done(), client.Close()
CleanupClient ==
    /\ tcp.cleanup = "wait"
    /\ tcp.cancelled
    /\ tcp' = [CloseHandle(tcp, "client") EXCEPT !.cleanup = "closeServer"]
    /\ UNCHANGED <<regVars, conn, inbox, taskVars, remoteVars, jsVars, panicked, consumer,
                   codec, nbws, registry, vnc, bridge>>

\* the cleanup goroutine: server.Close()
CleanupServer ==
    /\ tcp.cleanup = "closeServer"
    /\ tcp' = [CloseHandle(tcp, "server") EXCEPT !.cleanup = "done"]
    /\ UNCHANGED <<regVars, conn, inbox, taskVars, remoteVars, jsVars, panicked, consumer,
                   codec, nbws, registry, vnc, bridge>>

\* wg.Wait() has returned: the proxy returns, cancelling its context
ProxyReturn ==
    /\ tcp.impl # "none"
    /\ ~tcp.returned
    /\ \A dir \in Directions : tcp.copy[dir].pc = "done"
    /\ tcp' = [tcp EXCEPT !.returned = TRUE, !.cancelled = TRUE]
    /\ UNCHANGED <<regVars, conn, inbox, taskVars, remoteVars, jsVars, panicked, consumer,
                   codec, nbws, registry, vnc, bridge>>

\* a step of one of the proxy's goroutines
ProxyStep ==
    \/ \E dir \in Directions : CopyRead(dir)
    \/ \E dir \in Directions, ok \in BOOLEAN : CopyWrite(dir, ok)
    \/ \E dir \in Directions : HalfCloseWrite(dir)
    \/ \E dir \in Directions : HalfCloseRead(dir)
    \/ CleanupClient
    \/ CleanupServer
    \/ ProxyReturn

NextTCP ==
    \/ \E isTCP \in BOOLEAN : ProxyConnections(isTCP)
    \/ \E isTCP \in BOOLEAN : ProxyConnectionsHalfClose(isTCP)
    \/ PeerWrite("client", MaxClientBytes)
    \/ PeerWrite("server", MaxServerBytes)
    \/ \E side \in Sides : PeerCloseWrite(side)
    \/ \E side \in Sides : PeerClose(side)
    \/ ParentCancel
    \/ ProxyStep

SpecTCP == Init /\ [][NextTCP]_vars

\* ---------------------------------------------------------- NetBirdWebSocket
\* The object of netbird-websocket-proxy.js. connect is where the async
\* _connect stands: "await" at createNetBirdTCPConnection, "flush" in the
\* loop over the queued messages; closeTimers counts the callbacks close()
\* has scheduled and that have not run; sent is what went to
\* tcpConnection.send, events the events dispatched.

\* new NetBirdWebSocket(url): readyState 0 and _connect up to its first
\* await; without window.createNetBirdTCPConnection it throws before that
\* and the catch block closes the object
NewNetBirdWebSocket(available) ==
    /\ ~nbws.constructed
    /\ nbws' = IF available
               THEN [nbws EXCEPT !.constructed = TRUE, !.connect = "await"]
               ELSE [nbws EXCEPT !.constructed = TRUE, !.connect = "done",
                                 !.readyState = 3,
                                 !.events = @ \o <<"error", "close">>]
    /\ UNCHANGED <<regVars, conn, inbox, taskVars, remoteVars, jsVars, panicked, consumer,
                   codec, tcp, registry, vnc, bridge>>

\* _connect after the await: the connection is stored, the handlers are
\* set, readyState becomes 1 and the open event is dispatched
NbConnectResolved ==
    /\ nbws.connect = "await"
    /\ nbws' = [nbws EXCEPT !.tcpConnection = "open", !.readyState = 1,
                            !.events = Append(@, "open"), !.connect = "flush"]
    /\ UNCHANGED <<regVars, conn, inbox, taskVars, remoteVars, jsVars, panicked, consumer,
                   codec, tcp, registry, vnc, bridge>>

\* the catch block of _connect
NbConnectCatch ==
    [nbws EXCEPT !.readyState = 3, !.connect = "done",
                 !.events = @ \o <<"error", "close">>]

\* createNetBirdTCPConnection rejects
NbConnectRejected ==
    /\ nbws.connect = "await"
    /\ nbws' = NbConnectCatch
    /\ UNCHANGED <<regVars, conn, inbox, taskVars, remoteVars, jsVars, panicked, consumer,
                   codec, tcp, registry, vnc, bridge>>

\* one round of the loop over messageQueue: await tcpConnection.send(data),
\* which may reject
NbFlush(ok) ==
    /\ nbws.connect = "flush"
    /\ nbws' = IF nbws.messageQueue = <<>> THEN [nbws EXCEPT !.connect = "done"]
               ELSE IF ok
               THEN [nbws EXCEPT !.messageQueue = Tail(@),
                                 !.sent = Append(@, Head(nbws.messageQueue))]
               ELSE [NbConnectCatch EXCEPT !.messageQueue = Tail(@)]
    /\ (nbws.messageQueue = <<>> => ok)
    /\ UNCHANGED <<regVars, conn, inbox, taskVars, remoteVars, jsVars, panicked, consumer,
                   codec, tcp, registry, vnc, bridge>>

\* send(data): queued while connecting, an exception unless open, else
\* handed to the connection
NbSend(data) ==
    /\ nbws.constructed
    /\ nbws' = IF nbws.readyState = 0
               THEN [nbws EXCEPT !.sendCalls = @ + 1, !.messageQueue = Append(@, data)]
               ELSE IF nbws.readyState # 1
               THEN [nbws EXCEPT !.sendCalls = @ + 1, !.notOpenErrors = @ + 1]
               ELSE IF nbws.tcpConnection # "null"
               THEN [nbws EXCEPT !.sendCalls = @ + 1, !.sent = Append(@, data)]
               ELSE [nbws EXCEPT !.sendCalls = @ + 1]
    /\ UNCHANGED <<regVars, conn, inbox, taskVars, remoteVars, jsVars, panicked, consumer,
                   codec, tcp, registry, vnc, bridge>>

\* close(): nothing when closing or closed; else readyState 2, the
\* connection is closed when there is one, and the close event is scheduled
NbClose ==
    /\ nbws.constructed
    /\ nbws.readyState \notin {2, 3}
    /\ nbws' = [nbws EXCEPT !.readyState = 2,
                            !.tcpConnection = IF @ = "null" THEN @ ELSE "closed",
                            !.closeTimers = @ + 1]
    /\ UNCHANGED <<regVars, conn, inbox, taskVars, remoteVars, jsVars, panicked, consumer,
                   codec, tcp, registry, vnc, bridge>>

\* the callback close() scheduled
NbCloseTimer ==
    /\ nbws.closeTimers > 0
    /\ nbws' = [nbws EXCEPT !.readyState = 3, !.closeTimers = @ - 1,
                            !.events = Append(@, "close")]
    /\ UNCHANGED <<regVars, conn, inbox, taskVars, remoteVars, jsVars, panicked, consumer,
                   codec, tcp, registry, vnc, bridge>>

\* tcpConnection.onclose: the remote end closed the connection
NbRemoteClose ==
    /\ nbws.tcpConnection = "open"
    /\ nbws' = [nbws EXCEPT !.readyState = 3, !.tcpConnection = "closed",
                            !.events = Append(@, "close")]
    /\ UNCHANGED <<regVars, conn, inbox, taskVars, remoteVars, jsVars, panicked, consumer,
                   codec, tcp, registry, vnc, bridge>>

\* The two socket classes behind window.WebSocket: the caller constructs one
\* of them, by the URL it passes, and uses it.
NextSockets ==
    \/ (~nbws.constructed /\ NextBridge)
    \/ \E available \in BOOLEAN :
        /\ js.readyState = 0 /\ consumer = NoConsumer /\ destinations = << >>
        /\ NewNetBirdWebSocket(available)
    \/ NbConnectResolved
    \/ NbConnectRejected
    \/ \E ok \in BOOLEAN : NbFlush(ok)
    \/ \E data \in {"d1", "d2"} : (nbws.sendCalls < MaxCalls /\ NbSend(data))
    \/ NbClose
    \/ NbCloseTimer
    \/ NbRemoteClose

SpecSockets == Init /\ [][NextSockets]_vars

\* ------------------------------------------- activeConnections as a map
\* Several transports attach to one proxy; activeConnections maps a proxy id
\* to the proxyConnection stored under it last.
\* HandleWebSocketConnection(ws, proxyID): p.activeConnections[proxyID] = conn
RegistryAttach(s, proxyID) ==
    /\ ~registry.session[s].attached
    /\ registry' = [registry EXCEPT
            !.active = [x \in DOMAIN @ \cup {proxyID} |->
                        IF x = proxyID THEN s ELSE @[x]],
            !.session[s] = [@ EXCEPT !.attached = TRUE, !.id = proxyID]]
    /\ UNCHANGED <<regVars, conn, inbox, taskVars, remoteVars, jsVars, panicked,
                   consumer, codec, tcp, nbws, vnc, bridge>>

\* cleanupConnection(conn) of session s: cancel, close and clear the remote
\* handle, delete(p.activeConnections, conn.id)
RegistryCleanupEffect(s) ==
    registry' = [registry EXCEPT
        !.active = [x \in DOMAIN @ \ {registry.session[s].id} |-> @[x]],
        !.session[s] = [@ EXCEPT !.cancelled = TRUE, !.rdpConn = FALSE,
                                 !.task = "done"]]

\* the first message of session s in processRDCleanPathPDU: Dial returns; a
\* failed dial cleans the session up, a good one installs conn.rdpConn and the
\* negotiation goes on to wait for conn.ctx.Done()
RegistryDialed(s, dialOk) ==
    /\ registry.session[s].attached
    /\ registry.session[s].task = "none"
    /\ IF dialOk /\ ~registry.session[s].cancelled
       THEN registry' = [registry EXCEPT
                !.session[s] = [@ EXCEPT !.rdpConn = TRUE, !.task = "wait"]]
       ELSE RegistryCleanupEffect(s)
    /\ UNCHANGED <<regVars, conn, inbox, taskVars, remoteVars, jsVars, panicked,
                   consumer, codec, tcp, nbws, vnc, bridge>>

\* onGoClose of session s: conn.cancel()
RegistryGoClose(s) ==
    /\ registry.session[s].attached
    /\ ~registry.session[s].cancelled
    /\ registry' = [registry EXCEPT !.session[s].cancelled = TRUE]
    /\ UNCHANGED <<regVars, conn, inbox, taskVars, remoteVars, jsVars, panicked,
                   consumer, codec, tcp, nbws, vnc, bridge>>

\* <-conn.ctx.Done() returns in the negotiation of session s, which then runs
\* cleanupConnection
RegistryCleanup(s) ==
    /\ registry.session[s].task = "wait"
    /\ registry.session[s].cancelled
    /\ RegistryCleanupEffect(s)
    /\ UNCHANGED <<regVars, conn, inbox, taskVars, remoteVars, jsVars, panicked,
                   consumer, codec, tcp, nbws, vnc, bridge>>

\* Transports attaching under the first two proxy ids, each sending one
\* message and closing.
NextRegistry ==
    \/ \E s \in Transports, n \in {0, 1} : RegistryAttach(s, ProxyIDOf(n))
    \/ \E s \in Transports, dialOk \in BOOLEAN : RegistryDialed(s, dialOk)
    \/ \E s \in Transports : RegistryGoClose(s)
    \/ \E s \in Transports : RegistryCleanup(s)

SpecRegistry == Init /\ [][NextRegistry]_vars

\* ------------------------------------------------------ VNC WebSocket proxy
\* close(done): closing a channel that is closed already panics
CloseDone(v) ==
    [v EXCEPT !.doneCloses = @ + 1, !.panicked = (v.doneCloses > 0)]

\* the first timer of setupNetBirdProxy: handleVNCWebSocketMessage starts
\* handleVNCConnection as a goroutine and the second timer is set
VncSetup ==
    /\ vnc.pc = "none"
    /\ vnc' = [vnc EXCEPT !.pc = "dial", !.openTimer = TRUE]
    /\ UNCHANGED <<regVars, conn, inbox, taskVars, remoteVars, jsVars, panicked,
                   consumer, codec, tcp, nbws, registry, bridge>>

\* the second timer of setupNetBirdProxy: readyState = OPEN
VncOpenTimer ==
    /\ vnc.openTimer
    /\ vnc' = [vnc EXCEPT !.openTimer = FALSE, !.readyState = 1]
    /\ UNCHANGED <<regVars, conn, inbox, taskVars, remoteVars, jsVars, panicked,
                   consumer, codec, tcp, nbws, registry, bridge>>

\* Dial returns in handleVNCConnection: an error closes the bridge and
\* returns; otherwise readyState is set, the handlers are installed on the
\* bridge, the reader is started and the call waits for done
VncDialed(ok) ==
    /\ ~vnc.panicked
    /\ vnc.pc = "dial"
    /\ vnc' = IF ok
              THEN [vnc EXCEPT !.pc = "wait", !.readyState = 1,
                               !.handlers = TRUE, !.reader = "select"]
              ELSE [vnc EXCEPT !.pc = "returned", !.readyState = 2,
                               !.closeTimer = TRUE]
    /\ UNCHANGED <<regVars, conn, inbox, taskVars, remoteVars, jsVars, panicked,
                   consumer, codec, tcp, nbws, registry, bridge>>

\* the onmessage handler Go installs: conn.Write, and close(done) when it
\* fails
VncOnMessage(v, writeOk) ==
    IF writeOk THEN [v EXCEPT !.written = @ + 1] ELSE CloseDone(v)

\* a write succeeds only on a connection that is not closed
VncCanWrite(writeOk) ==
    writeOk => (~vnc.connClosed /\ vnc.written < MaxBridgeMsgs)

\* send(data) of the bridge: the Go onmessage handler is called with the data
VncSend(writeOk) ==
    /\ ~vnc.panicked
    /\ vnc.readyState = 1
    /\ vnc.handlers
    /\ VncCanWrite(writeOk)
    /\ vnc' = VncOnMessage(vnc, writeOk)
    /\ UNCHANGED <<regVars, conn, inbox, taskVars, remoteVars, jsVars, panicked,
                   consumer, codec, tcp, nbws, registry, bridge>>

\* close(code, reason) of the bridge: readyState = CLOSING and a timer
VncClose ==
    /\ vnc.pc # "none"
    /\ ~vnc.closeTimer
    /\ vnc.readyState # 3
    /\ vnc' = [vnc EXCEPT !.readyState = 2, !.closeTimer = TRUE]
    /\ UNCHANGED <<regVars, conn, inbox, taskVars, remoteVars, jsVars, panicked,
                   consumer, codec, tcp, nbws, registry, bridge>>

\* the timer of close(): readyState = CLOSED and the close event, which
\* dispatchEvent hands to the onclose property, the Go handler once installed
VncCloseTimer ==
    /\ ~vnc.panicked
    /\ vnc.closeTimer
    /\ LET v == [vnc EXCEPT !.readyState = 3, !.closeTimer = FALSE]
       IN vnc' = IF vnc.handlers THEN CloseDone(v) ELSE v
    /\ UNCHANGED <<regVars, conn, inbox, taskVars, remoteVars, jsVars, panicked,
                   consumer, codec, tcp, nbws, registry, bridge>>

\* <-done returns in handleVNCConnection: readyState is set to 3 and the
\* deferred conn.Close() runs
VncReturn ==
    /\ ~vnc.panicked
    /\ vnc.pc = "wait"
    /\ vnc.doneCloses > 0
    /\ vnc' = [vnc EXCEPT !.pc = "returned", !.readyState = 3,
                          !.connClosed = TRUE]
    /\ UNCHANGED <<regVars, conn, inbox, taskVars, remoteVars, jsVars, panicked,
                   consumer, codec, tcp, nbws, registry, bridge>>

\* the select of forwardVNCToWebSocket: return when done is closed, else
\* call conn.Read
VncSelect ==
    /\ ~vnc.panicked
    /\ vnc.reader = "select"
    /\ vnc' = [vnc EXCEPT !.reader = IF vnc.doneCloses > 0 THEN "done" ELSE "read"]
    /\ UNCHANGED <<regVars, conn, inbox, taskVars, remoteVars, jsVars, panicked,
                   consumer, codec, tcp, nbws, registry, bridge>>

\* conn.Read returns in forwardVNCToWebSocket. An error or EOF closes done
\* and ends the reader. Data goes to sendToWebSocket: on an open bridge the
\* message event is dispatched, and dispatchEvent hands it to the onmessage
\* property, the Go handler, which writes it to the connection; on a bridge
\* that is not open done is closed
VncRead(ok, writeOk) ==
    /\ ~vnc.panicked
    /\ vnc.reader = "read"
    /\ IF ok
       THEN /\ ~vnc.connClosed
            /\ vnc.events < MaxReads
            /\ VncCanWrite(writeOk)
            /\ vnc' = IF vnc.readyState = 1
                      THEN VncOnMessage([vnc EXCEPT !.events = @ + 1,
                                                    !.reader = "select"], writeOk)
                      ELSE CloseDone([vnc EXCEPT !.reader = "select"])
       ELSE /\ writeOk
            /\ vnc' = CloseDone([vnc EXCEPT !.reader = "done"])
    /\ UNCHANGED <<regVars, conn, inbox, taskVars, remoteVars, jsVars, panicked,
                   consumer, codec, tcp, nbws, registry, bridge>>

\* One VNC bridge: its timers, the consumer's send and close, and the two
\* goroutines of handleVNCConnection.
NextVNC ==
    \/ VncSetup
    \/ VncOpenTimer
    \/ \E ok \in BOOLEAN : VncDialed(ok)
    \/ \E writeOk \in BOOLEAN : VncSend(writeOk)
    \/ VncClose
    \/ VncCloseTimer
    \/ VncReturn
    \/ VncSelect
    \/ \E ok, writeOk \in BOOLEAN : VncRead(ok, writeOk)

SpecVNC == Init /\ [][NextVNC]_vars

\* ---------------------------------------------------- TCPConnectionBridge
\* the goroutine of createConnection after a good dial: the tcpConnection is
\* made and stored, readLoop is started and the promise is resolved
BridgeCreated ==
    /\ nbws.connect = "await"
    /\ ~bridge.created
    /\ bridge' = [bridge EXCEPT !.created = TRUE, !.readLoop = "select"]
    /\ UNCHANGED <<regVars, conn, inbox, taskVars, remoteVars, jsVars, panicked,
                   consumer, codec, tcp, nbws, registry, vnc>>

\* the onclose handler _connect puts on the connection
NbOnClose(w) == [w EXCEPT !.readyState = 3, !.events = Append(@, "close")]

\* handleSend of the k-th tcpConnection.send call, each a goroutine of its
\* own: conn.Write, and onerror when it fails
BridgeHandleSend(k, ok) ==
    /\ bridge.created
    /\ k \in (1..Len(nbws.sent)) \ bridge.handled
    /\ ok => bridge.closeCalls = 0
    /\ bridge' = [bridge EXCEPT !.handled = @ \cup {k},
                                !.written = IF ok THEN Append(@, k) ELSE @]
    /\ nbws' = IF ok THEN nbws ELSE [nbws EXCEPT !.events = Append(@, "error")]
    /\ UNCHANGED <<regVars, conn, inbox, taskVars, remoteVars, jsVars, panicked,
                   consumer, codec, tcp, registry, vnc>>

\* handleClose, the goroutine tcpConnection.close() starts: cancel, Close,
\* delete, onclose
BridgeHandleClose ==
    /\ bridge.created
    /\ nbws.tcpConnection = "closed"
    /\ bridge.handleClose = "none"
    /\ bridge' = [bridge EXCEPT !.handleClose = "done", !.cancelled = TRUE,
                                !.closeCalls = @ + 1, !.oncloseCalls = @ + 1]
    /\ nbws' = NbOnClose(nbws)
    /\ UNCHANGED <<regVars, conn, inbox, taskVars, remoteVars, jsVars, panicked,
                   consumer, codec, tcp, registry, vnc>>

\* the select of readLoop: return when the context is cancelled, else call
\* conn.Read
BridgeSelect ==
    /\ bridge.readLoop = "select"
    /\ bridge' = [bridge EXCEPT
            !.readLoop = IF bridge.cancelled THEN "done" ELSE "read"]
    /\ UNCHANGED <<regVars, conn, inbox, taskVars, remoteVars, jsVars, panicked,
                   consumer, codec, tcp, nbws, registry, vnc>>

\* conn.Read returns in readLoop: data goes to ondata once _connect has set
\* it; an error or EOF invokes onclose, once set, cancels, closes the
\* connection and deletes it
BridgeRead(ok) ==
    /\ bridge.readLoop = "read"
    /\ IF ok
       THEN /\ bridge.closeCalls = 0
            /\ bridge.reads < MaxReads
            /\ bridge' = [bridge EXCEPT !.readLoop = "select", !.reads = @ + 1]
            /\ nbws' = IF nbws.tcpConnection = "null" THEN nbws
                       ELSE [nbws EXCEPT !.events = Append(@, "message")]
       ELSE /\ bridge' = [bridge EXCEPT
                    !.readLoop = "done", !.cancelled = TRUE,
                    !.closeCalls = @ + 1,
                    !.oncloseCalls = IF nbws.tcpConnection = "null" THEN @ ELSE @ + 1]
            /\ nbws' = IF nbws.tcpConnection = "null" THEN nbws ELSE NbOnClose(nbws)
    /\ UNCHANGED <<regVars, conn, inbox, taskVars, remoteVars, jsVars, panicked,
                   consumer, codec, tcp, registry, vnc>>

\* A NetBirdWebSocket over its connection of the TCPConnectionBridge: the
\* n-th send() call carries the number n as its data.
NextTCPBridge ==
    \/ \E available \in BOOLEAN : NewNetBirdWebSocket(available)
    \/ BridgeCreated
    \/ (bridge.created /\ NbConnectResolved)
    \/ (~bridge.created /\ NbConnectRejected)
    \/ NbFlush(TRUE)
    \/ (nbws.sendCalls < MaxCalls /\ NbSend(nbws.sendCalls + 1))
    \/ NbClose
    \/ NbCloseTimer
    \/ \E k \in 1..MaxCalls, ok \in BOOLEAN : BridgeHandleSend(k, ok)
    \/ BridgeHandleClose
    \/ BridgeSelect
    \/ \E ok \in BOOLEAN : BridgeRead(ok)

SpecTCPBridge == Init /\ [][NextTCPBridge]_vars

\* ================================================================== claims
\* indexes of the PDUs task i sent to the bridge
PDUsBy(i) ==
    {k \in 1..Len(wsSent) : wsSent[k].kind = "pdu" /\ wsSent[k].by = i}

IsErrorPDU(item) == item.kind = "pdu" /\ "Error" \in DOMAIN item.wire

\* indexes of the error PDUs with text errorMsg task i sent to the bridge
ErrorPDUsBy(i, errorMsg) ==
    {k \in PDUsBy(i) : IsErrorPDU(wsSent[k]) /\ wsSent[k].wire["Error"].val = errorMsg}

\* entries message i left in the write logs of the remote ends
WritesOf(i) ==
    {<<c, k>> \in ConnIds \X (1..(MaxRelayMsgs + 1)) :
        /\ k <= Len(remote[c].rawWritten)
        /\ remote[c].rawWritten[k][2] = i}
    \cup
    {<<c, k>> \in ConnIds \X (1..(MaxRelayMsgs + 1)) :
        /\ k <= Len(remote[c].tlsWritten)
        /\ remote[c].tlsWritten[k][2] = i}

TornDown == conn.cancelled /\ conn.id \notin activeConnections

\* C1: once the goroutine of a first message that decodes as a PDU with a
\* version other than 3390 has finished, exactly one PDU, an error reply, was
\* sent for it, the session is torn down (scope cancelled, entry removed from
\* activeConnections), and nothing was dialed or written for it.
C1_VersionMismatchTearsDown ==
    ( /\ Len(inbox) >= 1
      /\ ~Unmarshal(inbox[1]).err
      /\ Unmarshal(inbox[1]).pdu.Version # RDCleanPathVersion
      /\ pc[1] = "done" )
    => /\ Cardinality(PDUsBy(1)) = 1
       /\ \A k \in PDUsBy(1) : IsErrorPDU(wsSent[k])
       /\ loc[1].c = 0
       /\ WritesOf(1) = {}
       /\ TornDown

\* C2: once processRDCleanPathPDU has finished after a failed dial, exactly
\* one PDU was sent for it, the "Connection failed" error, and the bridge has
\* been closed, so that its close notification is delivered or scheduled.
C2_DialFailureClosesBoundary ==
    \A i \in Tasks :
        (loc[i].outcome = "dialfail" /\ pc[i] = "done")
        => /\ Cardinality(PDUsBy(i)) = 1
           /\ Cardinality(ErrorPDUsBy(i, "Connection failed")) = 1
           /\ js.readyState \in {2, 3}

\* C3: when the negotiation task has ended because a step after the dial
\* failed (X.224 write, X.224 read, TLS handshake), the connection it dialed
\* is closed and the session is removed from activeConnections.
C3_StepFailureRunsCleanup ==
    \A i \in Tasks :
        ( /\ pc[i] = "done"
          /\ loc[i].outcome \in {"x224writeerr", "x224readerr", "handshakefail"} )
        => /\ IsClosed(loc[i].c)
           /\ conn.id \notin activeConnections

\* C4: in a session that dialed once, Close reaches the dialed connection at
\* most once, and exactly once when the cleanupConnection of the task that
\* dialed it has completed.
C4_CloseExactlyOnce ==
    \A i \in Tasks :
        (loc[i].c # 0 /\ dials = 1)
        => /\ Closes(loc[i].c) <= 1
           /\ loc[i].cleaned => Closes(loc[i].c) = 1

\* C5: in an established session, when a forwarding direction has ended (the
\* remote read loop returned, or a forwarded write failed), the scope of the
\* session is cancelled.
C5_ForwarderEndTriggersCleanup ==
    \A i, j \in Tasks :
        ( /\ loc[j].outcome = "established"
          /\ \/ fwd[i].pc = "done"
             \/ (pc[i] = "done" /\ loc[i].outcome = "writeerr") )
        => conn.cancelled

\* the forwarded messages of a write log appear in the order they were sent
InSendOrder(log) ==
    \A a, b \in 1..Len(log) :
        (a < b /\ log[a][1] = "msg" /\ log[b][1] = "msg") => log[a][2] < log[b][2]

\* C6: in a session established by its first message, the messages forwarded
\* to the remote connection are written in the order the bridge handed them
\* to onGoMessage.
C6_RelayPreservesOrder ==
    (loc[1].outcome = "established" /\ dials = 1)
    => /\ InSendOrder(remote[loc[1].c].rawWritten)
       /\ InSendOrder(remote[loc[1].c].tlsWritten)

\* C7: the message events are dispatched in the order of the receiveFromGo
\* calls: a chunk is never dispatched after a chunk handed over later.
C7_DeliveryInCallOrder ==
    \A a, b \in 1..Len(events) : a < b => events[a] < events[b]

\* C8: after handleDirectRDP has relayed the first response, and as long as
\* the bridge is open and no read or write on the remote failed, the dialed
\* connection stays installed and open.
C8_DirectModeKeepsForwarding ==
    \A i \in Tasks :
        ( /\ loc[i].outcome = "direct"
          /\ js.readyState = 1
          /\ \A j \in Tasks : fwd[j].pc # "done" /\ loc[j].outcome # "writeerr" )
        => /\ conn.rdpConn = loc[i].c
           /\ ~IsClosed(loc[i].c)

\* C9: once the first message has failed decoding, started with the marker
\* byte and so started handleDirectRDP, no step of the session sends a PDU to
\* the bridge.
C9_DirectModeSendsNoPDU ==
    [][ ( /\ Len(inbox) >= 1
          /\ Unmarshal(inbox[1]).err
          /\ FirstByte(inbox[1]) = RDPMarker
          /\ loc[1].mode = "direct"
          /\ Len(wsSent') > Len(wsSent) )
        => wsSent'[Len(wsSent')].kind # "pdu" ]_vars

\* the certificate chain a sent PDU carries; an absent field has no entries
SentCertChain(item) ==
    IF "ServerCertChain" \in DOMAIN item.wire
    THEN item.wire["ServerCertChain"].val ELSE <<>>

\* indexes of the response PDUs of the TLS path
TLSResponses ==
    {k \in 1..Len(wsSent) :
        /\ wsSent[k].kind = "pdu"
        /\ ~IsErrorPDU(wsSent[k])
        /\ loc[wsSent[k].by].mode = "tls"}

\* C10: the response PDU of the TLS path carries as many chain entries as the
\* remote presented certificates, in the presented order, each equal to the
\* DER encoding of the presented certificate.
C10_CertChainAsPresented ==
    \A k \in TLSResponses :
        LET presented == remote[loc[wsSent[k].by].c].chain
            sent == SentCertChain(wsSent[k])
        IN /\ Len(sent) = Len(presented)
           /\ \A j \in 1..Len(presented) : sent[j] = presented[j].Raw

\* a TLS response for a remote that presented two certificates was sent
C10_Witness ==
    \E k \in TLSResponses :
        /\ Len(remote[loc[wsSent[k].by].c].chain) = 2
        /\ Len(SentCertChain(wsSent[k])) = 2

\* indexes of the PDUs sent to the bridge that are not error PDUs
ResponsePDUs ==
    {k \in 1..Len(wsSent) : wsSent[k].kind = "pdu" /\ ~IsErrorPDU(wsSent[k])}

\* C11: a PDU sent to the bridge has a ServerCertChain field only if it is
\* the response of a task that took the TLS path and whose handshake
\* succeeded; no error PDU and no plain-path response has the field.
C11_CertChainOnlyOnTLSPath ==
    \A k \in 1..Len(wsSent) :
        (wsSent[k].kind = "pdu" /\ "ServerCertChain" \in DOMAIN wsSent[k].wire)
        => /\ ~IsErrorPDU(wsSent[k])
           /\ loc[wsSent[k].by].mode = "tls"
           /\ remote[loc[wsSent[k].by].c].hs = "ok"

\* a plain-path response and an error PDU were sent
C11_Witness ==
    /\ \E k \in ResponsePDUs : loc[wsSent[k].by].mode = "plain"
    /\ \E k \in 1..Len(wsSent) : IsErrorPDU(wsSent[k])

\* the ServerAddr field of a sent PDU; an absent field is the empty string
SentServerAddr(item) ==
    IF "ServerAddr" \in DOMAIN item.wire THEN item.wire["ServerAddr"].val ELSE <<>>

\* C12: in a session that dialed once, the ServerAddr of the response PDU is
\* the destination that was dialed: the Destination of the request when it
\* has one, otherwise the destination registered for the proxy id.
C12_ServerAddrIsDialedDestination ==
    \A k \in ResponsePDUs :
        dials = 1 => SentServerAddr(wsSent[k]) = remote[loc[wsSent[k].by].c].dest

\* C13: once the goroutine of a first message that does not decode and does
\* not start with the marker byte has finished, nothing was sent to the
\* bridge for it and the session is torn down (scope cancelled, entry removed
\* from activeConnections).
C13_MalformedFirstMessageTearsDown ==
    ( /\ Len(inbox) >= 1
      /\ Unmarshal(inbox[1]).err
      /\ FirstByte(inbox[1]) # RDPMarker
      /\ pc[1] = "done" )
    => /\ \A k \in 1..Len(wsSent) : wsSent[k].by # 1
       /\ TornDown

\* a task of the session ended with a failed negotiation, or a
\* cleanupConnection on the session has completed
SessionTornDown ==
    \E i \in Tasks :
        \/ loc[i].cleaned
        \/ /\ pc[i] = "done"
           /\ loc[i].outcome \in {"badversion", "dialfail", "x224writeerr",
                                  "x224readerr", "handshakefail"}

\* no negotiation or cleanup task of the session is under way
NoTaskMidStep == \A i \in Tasks : pc[i] \in {"none", "done"}

\* C14: when the session has been torn down and none of its tasks is under
\* way, every connection it dialed is closed and its entry is absent from
\* activeConnections.
C14_NoHalfTornDownSession ==
    (SessionTornDown /\ NoTaskMidStep)
    => /\ \A c \in 1..dials : IsClosed(c)
       /\ conn.id \notin activeConnections

\* C15: once the bridge has called onGoClose and no task of the session is
\* under way (none is left to run cleanupConnection), the scope is cancelled,
\* every connection the session dialed is closed and the session is absent
\* from activeConnections.
C15_GoCloseLeadsToCleanup ==
    (js.goCloseCalls > 0 /\ NoTaskMidStep)
    => /\ conn.cancelled
       /\ \A c \in 1..dials : IsClosed(c)
       /\ conn.id \notin activeConnections

\* C16: the proxy ids createProxy has returned are pairwise different.
C16_ProxyIDsUnique ==
    \A a, b \in 1..Len(consumer.proxyIDs) :
        a # b => consumer.proxyIDs[a] # consumer.proxyIDs[b]

\* C18: a send() call on a bridge that is closing or closed throws the
\* not-open error and changes nothing else: not the state or the queue of the
\* bridge, not what the Go side received, not the session.
C18_SendOnClosedBridgeThrows ==
    [][ ( /\ js.readyState \in {2, 3}
          /\ consumer'.sendCalls = consumer.sendCalls + 1 )
        => /\ consumer'.notOpenErrors = consumer.notOpenErrors + 1
           /\ js' = js
           /\ inbox' = inbox
           /\ conn' = conn
           /\ UNCHANGED <<regVars, taskVars, remoteVars, wsSent, rx, events>> ]_vars

\* send() was called on a closing and on a closed bridge of an attached session
C18_Witness ==
    /\ consumer.notOpenErrors = 2
    /\ conn.attached
    /\ js.readyState = 3

\* C19: whatever close() calls are made, also after a failed connect or a
\* certificate rejection, onGoClose is called at most once and at most one
\* close event is dispatched.
C19_CloseIdempotent ==
    /\ js.goCloseCalls <= 1
    /\ js.closeEvents <= 1

\* close() was called twice more after a certificate rejection had closed
\* the bridge, and the close event was dispatched
C19_Witness ==
    /\ consumer.closeNoOps = 2
    /\ \E k \in 1..Len(rx) : rx[k] = "dropped"
    /\ js.closeEvents = 1
    /\ js.goCloseCalls = 1

\* C20: a message that went through Marshal and Unmarshal comes out as it
\* went in: every optional field is absent, present and empty, or present
\* with content, as before.
C20_RoundTripKeepsPresence ==
    codec.pc = "decoded" => MessageOf(codec.out) = codec.m


\* C21: a byte string shorter than two bytes, one whose declared field
\* length exceeds the rest of the buffer, and one without the Version field
\* all fail to decode, and the handler starts no PDU processing for them:
\* the goroutine of such a message never reaches the dial, never negotiates
\* and sends no PDU.
C21_MalformedStartsNoPDUProcessing ==
    \A i \in DOMAIN inbox :
        inbox[i].raw \in MalformedInputs =>
            /\ Unmarshal(inbox[i]).err
            /\ pc[i] # "dial"
            /\ loc[i].mode \notin {"tls", "plain"}
            /\ PDUsBy(i) = {}


\* C22: on the TLS path the outcome does not depend on whether the chain
\* the remote presents verifies: whenever a remote has presented a chain,
\* trusted or not, the handshake on that connection has succeeded, a task
\* is established on it and a response PDU exposes that chain; no
\* handshake fails on a presented chain.
C22_OutcomeIndependentOfTrust ==
    \A c \in ConnIds :
        remote[c].chain # <<>> =>
            /\ remote[c].hs = "ok"
            /\ \E k \in TLSResponses :
                  /\ loc[wsSent[k].by].c = c
                  /\ loc[wsSent[k].by].outcome = "established"
                  /\ SentCertChain(wsSent[k]) = CertChainOf(remote[c].chain)

\* a remote presented a chain that does not verify, and the negotiation is
\* established with that chain in the response
C22_Witness ==
    \E c \in ConnIds, k \in TLSResponses :
        /\ remote[c].chain # <<>>
        /\ ~ChainVerifies(remote[c].chain)
        /\ remote[c].hs = "ok"
        /\ loc[wsSent[k].by].c = c
        /\ SentCertChain(wsSent[k]) = CertChainOf(remote[c].chain)


\* the bytes of a stream, without the end-of-stream mark
DataOf(stream) == SelectSeq(stream, LAMBDA x : x # EndOfStream)

\* what the peer on `side` received is a prefix of what the other peer
\* wrote, unchanged and in order, with the end of the stream last if at all
InOrderFrom(side, other) ==
    /\ Len(DataOf(tcp.got[side])) <= tcp.peer[other].wrote
    /\ \A k \in 1..Len(DataOf(tcp.got[side])) : DataOf(tcp.got[side])[k] = k
    /\ \A k \in 1..(Len(tcp.got[side]) - 1) : tcp.got[side][k] # EndOfStream

\* everything the other peer wrote has reached the peer on `side`
AllFrom(side, other) ==
    /\ InOrderFrom(side, other)
    /\ Len(DataOf(tcp.got[side])) = tcp.peer[other].wrote

\* C23: proxyConnections delivers the client's bytes to the server and the
\* server's bytes to the client unchanged and in order, and once a copy
\* direction has ended the proxy cannot come to rest before both
\* connections are closed, both copy goroutines have finished and the call
\* has returned.
C23_FullCloseProxy ==
    tcp.impl = "full" =>
        /\ InOrderFrom("server", "client")
        /\ InOrderFrom("client", "server")
        /\ ((\E dir \in Directions : tcp.copy[dir].pc = "done") /\ ~ENABLED ProxyStep)
            => /\ \A side \in Sides : "close" \in tcp.handle[side]
               /\ \A dir \in Directions : tcp.copy[dir].pc = "done"
               /\ tcp.returned

\* proxyConnections has returned with both connections closed after every
\* byte of both peers went through
C23_Witness ==
    /\ tcp.impl = "full"
    /\ tcp.returned
    /\ \A side \in Sides : "close" \in tcp.handle[side]
    /\ DataOf(tcp.got["server"]) = <<1, 2>>
    /\ DataOf(tcp.got["client"]) = <<1, 2>>

EffectiveDestination(i) ==
    IF Pdu(i).Destination # <<>> THEN Pdu(i).Destination
    ELSE IF conn.id \in DOMAIN destinations /\ destinations[conn.id] # <<>>
    THEN destinations[conn.id]
    ELSE DefaultDestination

C26_HandshakeFailureEndsNegotiation ==
    [][(\E i \in Tasks : loc'[i].outcome = "handshakefail") =>
          /\ \A i \in Tasks :
                loc'[i].outcome = "handshakefail" =>
                    Cardinality(ErrorPDUsBy(i, "TLS handshake failed")') = 1
          /\ \A k \in 1..Len(wsSent') :
                wsSent'[k].kind = "pdu" => IsErrorPDU(wsSent'[k])
          /\ \A j \in Tasks : fwd'[j].pc = "none" /\ wsfwd'[j] = "none"
          /\ (\E i \in Tasks : loc[i].outcome = "handshakefail") =>
                /\ \A j \in Tasks :
                      pc[j] \in {"none", "handle"} => WritesOf(j)' = {}
                /\ \A c \in ConnIds :
                      remote[c].hs = "failed" =>
                          /\ remote'[c].rawWritten = remote[c].rawWritten
                          /\ remote'[c].tlsWritten = remote[c].tlsWritten]_vars

\* the tasks that took their message for a request and went on to dial
Negotiators ==
    {i \in Tasks : pc[i] = "dial" \/ loc[i].mode \in {"tls", "plain"}
                                   \/ loc[i].outcome = "dialfail"}

\* C27: a session negotiates at most once: whatever messages arrive before
\* or during the negotiation, at most one task dials, at most one dial
\* succeeds and so the remote handle is installed at most once.
C27_NegotiatesAtMostOnce ==
    /\ Cardinality(Negotiators) <= 1
    /\ dials <= 1


\* C28: a createProxy call that resolves a proxy id already in the
\* destination table replaces that one entry by the destination asked for
\* and changes nothing else: the session, the destination it took when it
\* attached, the remote connections and the registry stay as they were, and
\* an attached session keeps its id and destination in every later step.
C28_ReRegisterLeavesSessionsUnchanged ==
    [][/\ LET n == Len(consumer'.proxyIDs)
          IN (n = Len(consumer.proxyIDs) + 1
                /\ consumer'.proxyIDs[n] \in DOMAIN destinations) =>
               /\ destinations' =
                    [destinations EXCEPT ![consumer'.proxyIDs[n]] =
                                            consumer'.requested[n]]
               /\ conn' = conn
               /\ activeConnections' = activeConnections
               /\ remote' = remote
       /\ (conn.attached /\ conn'.attached) =>
               /\ conn'.id = conn.id
               /\ conn'.destination = conn.destination]_vars

\* the entry of a live session that has dialed was overwritten by a
\* destination other than the one the session holds and dialed
C28_Witness ==
    /\ conn.attached
    /\ conn.id \in activeConnections
    /\ conn.id \in DOMAIN destinations
    /\ Len(consumer.proxyIDs) = 2
    /\ consumer.proxyIDs[1] = conn.id
    /\ consumer.proxyIDs[2] = conn.id
    /\ consumer.requested[1] # consumer.requested[2]
    /\ destinations[conn.id] = consumer.requested[2]
    /\ destinations[conn.id] # conn.destination
    /\ dials = 1
    /\ remote[1].dest = conn.destination


\* C29: in both bridge classes readyState only moves forward along
\* Connecting (0), Open (1), Closing (2), Closed (3): no step lowers it, so
\* nothing brings a closing or closed bridge back to Open or Connecting.
C29_ReadyStateOnlyMovesForward ==
    [][/\ js'.readyState >= js.readyState
       /\ nbws'.readyState >= nbws.readyState]_vars


\* the X.224 bytes a PDU sent to the bridge carries
X224Carried(item) ==
    IF "X224ConnectionPDU" \in DOMAIN item.wire
    THEN item.wire["X224ConnectionPDU"].val ELSE <<>>

\* C30: the X.224 payload of a request is the first thing written on the
\* connection dialed for it, byte for byte; the one read of the answer is
\* issued on that connection while no handshake has started on it and no
\* response PDU has been sent; the response PDU carries the bytes read; a
\* request without payload causes no X.224 write and no read.
C30_X224ExchangeBeforeHandshake ==
    /\ \A c \in ConnIds, k \in 1..MaxRelayMsgs :
          (k <= Len(remote[c].rawWritten) /\ remote[c].rawWritten[k][1] = "x224")
          => /\ k = 1
             /\ Pdu(remote[c].rawWritten[k][2]).X224ConnectionPDU # <<>>
             /\ remote[c].rawWritten[k][3] =
                    Pdu(remote[c].rawWritten[k][2]).X224ConnectionPDU
    /\ \A i \in Tasks :
          /\ pc[i] = "x224read" =>
                \* the Read is issued on conn.rdpConn
                /\ conn.rdpConn = loc[i].c
                /\ remote[loc[i].c].hs = "none"
                /\ \A k \in 1..Len(wsSent) :
                      wsSent[k].kind = "pdu" => IsErrorPDU(wsSent[k])
          /\ \A k \in PDUsBy(i) :
                ~IsErrorPDU(wsSent[k]) =>
                    /\ X224Carried(wsSent[k]) = loc[i].x224Response
                    /\ Len(loc[i].x224Response) <= X224ReadLimit
                    /\ loc[i].x224Response # <<>> =>
                          /\ Pdu(i).X224ConnectionPDU # <<>>
                          /\ loc[i].x224Response = ReadInto(X224ReadLimit, X224Confirm)
          /\ (loc[i].mode \in {"tls", "plain"} /\ Pdu(i).X224ConnectionPDU = <<>>) =>
                /\ loc[i].x224Response = <<>>
                /\ \A c \in ConnIds, k \in 1..MaxRelayMsgs :
                      k <= Len(remote[c].rawWritten) =>
                          ~(/\ remote[c].rawWritten[k][1] = "x224"
                            /\ remote[c].rawWritten[k][2] = i)

\* C31: once a task of the session has reached Established, no step sends
\* another PDU, error or response, to the bridge.
C31_NoPDUAfterEstablished ==
    [][(\E i \in Tasks : loc[i].outcome = "established") =>
          \A k \in 1..Len(wsSent') :
              wsSent'[k].kind = "pdu" =>
                  (k <= Len(wsSent) /\ wsSent[k] = wsSent'[k])]_vars

RequestFields == {"Destination", "ProxyAuth", "ServerAuth", "PreconnectionBlob"}

\* C32: every PDU the engine sends has Version 3390 and none of the request
\* fields Destination, ProxyAuth, ServerAuth, PreconnectionBlob; a PDU with
\* the Error field holds Version and Error only, and the PDU of a task that
\* reached Established, its response, has no Error field.
C32_SentPDUsAreResponseShaped ==
    \A k \in 1..Len(wsSent) :
        wsSent[k].kind = "pdu" =>
            /\ "Version" \in DOMAIN wsSent[k].wire
            /\ wsSent[k].wire["Version"].val = RDCleanPathVersion
            /\ DOMAIN wsSent[k].wire \cap RequestFields = {}
            /\ IsErrorPDU(wsSent[k]) => DOMAIN wsSent[k].wire = {"Version", "Error"}
            /\ loc[wsSent[k].by].outcome = "established" => ~IsErrorPDU(wsSent[k])

\* the session has sent an error PDU and a response PDU that carries the
\* X.224 answer and the server address
C32_Witness ==
    \E k, l \in 1..Len(wsSent) :
        /\ wsSent[k].kind = "pdu" /\ IsErrorPDU(wsSent[k])
        /\ wsSent[l].kind = "pdu" /\ ~IsErrorPDU(wsSent[l])
        /\ loc[wsSent[l].by].outcome = "established"
        /\ {"X224ConnectionPDU", "ServerAddr"} \subseteq DOMAIN wsSent[l].wire

\* C33: on the connection of a task that took the TLS path and has not
\* failed, the raw write log holds nothing but the X.224 payload of the
\* request: every forwarded message went through the TLS connection.
C33_OnlyX224WrittenRawOnTLSPath ==
    \A i \in Tasks :
        (loc[i].mode = "tls" /\ loc[i].outcome \in {"dialed", "established"}) =>
            \A k \in 1..Len(remote[loc[i].c].rawWritten) :
                remote[loc[i].c].rawWritten[k][1] = "x224"

\* C34: cleanupConnection of one session never removes the registry entry of
\* a different live session: in a step in which session s is cleaned up, every
\* activeConnections entry that holds another session, attached and not
\* cleaned up, is still there after the step; so a second transport attached
\* under the same proxy id stays present after the first one's cleanup.
C34_CleanupKeepsOtherSessions ==
    [][\A s \in Transports :
          (registry.session[s].task # "done" /\ registry'.session[s].task = "done") =>
              \A p \in DOMAIN registry.active :
                  LET t == registry.active[p]
                  IN (t # s /\ registry.session[t].attached
                             /\ registry.session[t].task # "done") =>
                         (p \in DOMAIN registry'.active /\ registry'.active[p] = t)]_vars

\* C35: with a certificate handler installed, no chunk from Go is delivered as
\* a message event while the trust decision on a response's certificate chain
\* is pending, and once the chain was rejected neither that response nor any
\* later chunk is delivered: a step that starts and ends with some response
\* awaiting the decision or rejected dispatches no message event.
C35_NothingDeliveredBeforeTrust ==
    [][(/\ js.certificateHandler
        /\ \E k \in 1..Len(rx) :
              rx[k] \in {"trust", "dropped"} /\ rx'[k] \in {"trust", "dropped"})
          => events' = events]_vars

\* C36: after close() on the bridge object no further message event is
\* dispatched, even if Go keeps calling receiveFromGo: a step that starts with
\* the bridge closing or closed leaves the dispatched message events as they
\* are.
C36_NoMessageAfterClose ==
    [][js.readyState \in {2, 3} => events' = events]_vars

\* C37: no task uses a remote handle after cleanupConnection cleared it: no
\* forwarder or negotiation calls Read, Write or Handshake through conn.rdpConn
\* or conn.tlsConn while the field is nil, so no nil dereference is reachable.
C37_NoNilHandleUse == ~panicked

\* C38: the done channel of a VNC connection is closed at most once, whichever
\* of the write error, the onclose and onerror callbacks, the read error or
\* EOF and the send to a bridge that is not open come together.
C38_DoneClosedAtMostOnce == vnc.doneCloses <= 1

\* C39: on a connection of the TCPConnectionBridge the underlying Close is
\* called at most once and the JavaScript onclose callback is invoked at most
\* once, however handleClose and the error or EOF of readLoop interleave.
C39_CloseAndOnCloseAtMostOnce ==
    bridge.closeCalls <= 1 /\ bridge.oncloseCalls <= 1

\* C40: on a NetBirdWebSocket over the TCPConnectionBridge the data written to
\* the connection follows the order of the send() calls, the messages queued
\* while connecting first: neither the flush loop nor the goroutines of the
\* sends reorder it. The n-th call sends the number n, so the numbers written
\* increase.
C40_WritesFollowSendOrder ==
    \A a, b \in 1..Len(bridge.written) :
        a < b => nbws.sent[bridge.written[a]] < nbws.sent[bridge.written[b]]

====
